---- MODULE Spec2Model ----
(***************************************************************************)
(* A model of the passwordless authentication server of PasswordlessDemo:  *)
(* the typed JWT service (src/server/jwt.ts), the sliding-window rate      *)
(* limiter (src/server/rateLimit.ts), the one-time-code signup and login   *)
(* flows (src/server/auth.ts), the passkey flow (server/passkey.ts) and    *)
(* the session cookie (lib/auth.ts).                                       *)
(*                                                                         *)
(* Every server function is an async handler; each `await` is a point at   *)
(* which another request may run.  A request is therefore a process in a   *)
(* slot of Procs whose position is req[p].pc, and each action is the code  *)
(* between two awaits.  Time is counted in units of five minutes.          *)
(***************************************************************************)
EXTENDS Integers, Sequences, FiniteSets, TLC

VARIABLES
    now,              \* the server clock (Date.now()), in time units
    users,            \* table users: set of [id, name, email]
    userAuthAttempts, \* table user_auth_attempts: sequence, row id = index
    passkeys,         \* table passkeys: set of [id, userId, credentialId, counter]
    nextPasskeyId,    \* AUTOINCREMENT of passkeys.id
    nextChallenge,    \* number of WebAuthn challenges generated so far
    rateLimits,       \* table rate_limits: set of rows
    nextRateLimitId,  \* AUTOINCREMENT of rate_limits.id
    issued,           \* every token the server has signed, with the operation that signed it
    req,              \* per request slot: position and locals of the handler
    redeemed,         \* per AuthAttempt id: number of verify calls that returned success
    serial,           \* TRUE when requests are served one after another
    quota             \* what the code requests of a run may create: [attempts, rows]

passkeyVars == <<passkeys, nextPasskeyId, nextChallenge>>

vars == <<now, users, userAuthAttempts, passkeyVars, rateLimits, nextRateLimitId,
          issued, req, redeemed, serial, quota>>

(***************************************************************************)
(* Bounds of the model.                                                    *)
(***************************************************************************)
MaxTicks == 2
MaxAttempts == 2
MaxRequestRows == 4
MaxRateLimitRows == 6
MaxWindowTicks == 4
MaxCounter == 2
MaxChallenges == 3
MaxPasskeyRows == 2
MaxLimitRequests == 2
MaxTokens == 3

Procs == {"p1", "p2"}
Emails == {"ada@x.com", "ghost@x.com"}
Names == {"Ada"}
ClientIPs == {"10.0.0.1"}
CredentialIds == {"credA", "credB"}

(***************************************************************************)
(* Program constants (durations in units of five minutes).                 *)
(***************************************************************************)
SIGNUP_TOKEN_EXPIRATION == 288
CODE_VERIFICATION_TOKEN_EXPIRATION == 3
PASSKEY_CHALLENGE_TOKEN_EXPIRATION == 2
SESSION_TOKEN_EXPIRATION == 8640
OTP_EXPIRES_IN == 3
OTP_LENGTH == 8
NoUser == 0

GenericError == "Invalid code. Please check your email and try again."
AccountExistsError == "An account with this email already exists"
ClonedError == "Invalid signature counter. Possible cloned credential."

(***************************************************************************)
(* Strings as sequences of characters: String.prototype.toUpperCase,       *)
(* toLowerCase and the zod pattern /^[A-Z0-9]{8}$/.                        *)
(***************************************************************************)
UPPER == <<"A","B","C","D","E","F","G","H","I","J","K","L","M",
           "N","O","P","Q","R","S","T","U","V","W","X","Y","Z">>
LOWER == <<"a","b","c","d","e","f","g","h","i","j","k","l","m",
           "n","o","p","q","r","s","t","u","v","w","x","y","z">>
DIGITS == {"0","1","2","3","4","5","6","7","8","9"}

Range(s) == {s[i] : i \in DOMAIN s}

toUpperChar(ch) ==
    IF \E i \in DOMAIN LOWER : LOWER[i] = ch
    THEN UPPER[CHOOSE i \in DOMAIN LOWER : LOWER[i] = ch]
    ELSE ch

toLowerChar(ch) ==
    IF \E i \in DOMAIN UPPER : UPPER[i] = ch
    THEN LOWER[CHOOSE i \in DOMAIN UPPER : UPPER[i] = ch]
    ELSE ch

toUpperCase(s) == [i \in DOMAIN s |-> toUpperChar(s[i])]
toLowerCase(s) == [i \in DOMAIN s |-> toLowerChar(s[i])]

\* z.string().length(8).regex(/^[A-Z0-9]{8}$/)
codeSchemaOk(code) ==
    /\ Len(code) = OTP_LENGTH
    /\ \A i \in DOMAIN code : code[i] \in Range(UPPER) \cup DIGITS

\* generateOTPCode draws 8 characters of A-Z0-9; the model draws from a sample:
\* the n-th code request draws one of the first n sample codes (which sample
\* code is drawn first makes no difference).
SampleCodes == << <<"K","7","Q","2","M","4","X","9">>,
                 <<"B","1","B","1","Z","0","Z","0">> >>
GeneratedCodes == Range(SampleCodes)
generateOTPCode(n) == {SampleCodes[i] : i \in {j \in DOMAIN SampleCodes : j <= n + 1}}
SubmittedCodes == GeneratedCodes \cup {toLowerCase(SampleCodes[1])}

\* createHash("sha256").update(code.toUpperCase()).digest("hex"): one-way and
\* collision-free on its (upper-cased) argument.
hashOTPCode(code) == <<"sha256", toUpperCase(code)>>

\* createHash("sha256").update(token).digest("hex")
NoHash == <<>>
hashJWT(token) == <<"sha256", token>>

\* Variant: the e-mail address is used as it was typed.
emailToLowerCase_AsTyped(email) == email

\* email.toLowerCase() on the e-mail addresses of the model
emailToLowerCase(email) ==
    CASE email = "Ada@x.com" -> "ada@x.com"
      [] OTHER -> email

(***************************************************************************)
(* TokenService (src/server/jwt.ts).  A token is its claim set; the HS256  *)
(* signature is the fact that the server signed exactly this claim set.    *)
(***************************************************************************)
SignedTokens == {i.tok : i \in issued}

\* A token whose signature was not made with JWT_SECRET.
ForgedToken == [userId |-> 1, iat |-> 0, exp |-> SESSION_TOKEN_EXPIRATION,
                forged |-> TRUE]

NoToken == [none |-> TRUE]

Has(payload, claim) == claim \in DOMAIN payload

\* Variant: the exp claim is not looked at.
jwtVerify_ExpIgnored(token, t) ==
    IF token \notin SignedTokens THEN "signature verification failed" ELSE "ok"

\* jose jwtVerify(token, secret): the signature, then `exp <= now` rejects.
jwtVerify(token, t) ==
    IF token \notin SignedTokens THEN "signature verification failed"
    ELSE IF token.exp <= t THEN "\"exp\" claim timestamp check failed"
    ELSE "ok"

signSignupToken(name, email, t) ==
    [name |-> name, email |-> email, iat |-> t,
     exp |-> t + SIGNUP_TOKEN_EXPIRATION]

verifySignupToken(token, t) ==
    LET v == jwtVerify(token, t) IN
    IF v # "ok" THEN [ok |-> FALSE, error |-> v]
    ELSE IF ~Has(token, "name") \/ ~Has(token, "email")
        THEN [ok |-> FALSE, error |-> "Invalid token payload structure"]
    ELSE [ok |-> TRUE, error |-> ""]

\* if (userId !== null) payload.userId = userId; else payload.email = email;
CodeVerificationSubject(userId, email) ==
    IF userId # NoUser THEN [userId |-> userId] ELSE [email |-> email]

\* The claim that carries the AuthAttempt id is read by the handlers as
\* payload.userAuthAttemptId (auth.ts:153, auth.ts:374).
signCodeVerificationToken(userId, email, userAuthAttemptId, t) ==
    [userAuthAttemptId |-> userAuthAttemptId, iat |-> t,
     exp |-> t + CODE_VERIFICATION_TOKEN_EXPIRATION]
        @@ CodeVerificationSubject(userId, email)

\* Variant: the subject claims are not looked at.
subjectShapeOk_NotChecked(payload) == TRUE

\* hasUserId / hasEmail: either must be present, but not both
subjectShapeOk(payload) ==
    LET hasUserId == Has(payload, "userId")
        hasEmail == Has(payload, "email")
    IN  /\ ~(~hasUserId /\ ~hasEmail)
        /\ ~(hasUserId /\ hasEmail)

verifyCodeVerificationToken(token, t) ==
    LET v == jwtVerify(token, t) IN
    IF v # "ok" THEN [ok |-> FALSE, error |-> v]
    ELSE IF ~Has(token, "userAuthAttemptId")
        THEN [ok |-> FALSE, error |-> "Invalid token payload structure"]
    ELSE IF ~subjectShapeOk(token)
        THEN [ok |-> FALSE, error |-> "Invalid token payload structure"]
    ELSE [ok |-> TRUE, error |-> ""]

signPasskeyChallengeToken(challenge, userId, email, t) ==
    [challenge |-> challenge, userId |-> userId, email |-> email, iat |-> t,
     exp |-> t + PASSKEY_CHALLENGE_TOKEN_EXPIRATION]

verifyPasskeyChallengeToken(token, t) ==
    LET v == jwtVerify(token, t) IN
    IF v # "ok" THEN [ok |-> FALSE, error |-> v]
    ELSE IF ~Has(token, "challenge") \/ ~Has(token, "userId") \/ ~Has(token, "email")
        THEN [ok |-> FALSE, error |-> "Invalid token payload structure"]
    ELSE [ok |-> TRUE, error |-> ""]

signPasskeyDiscoveryToken(challenge, t) ==
    [challenge |-> challenge, iat |-> t,
     exp |-> t + PASSKEY_CHALLENGE_TOKEN_EXPIRATION]

verifyPasskeyDiscoveryToken(token, t) ==
    LET v == jwtVerify(token, t) IN
    IF v # "ok" THEN [ok |-> FALSE, error |-> v]
    ELSE IF ~Has(token, "challenge")
        THEN [ok |-> FALSE, error |-> "Invalid token payload structure"]
    ELSE [ok |-> TRUE, error |-> ""]

signSessionToken(userId, t) ==
    [userId |-> userId, iat |-> t, exp |-> t + SESSION_TOKEN_EXPIRATION]

verifySessionToken(token, t) ==
    LET v == jwtVerify(token, t) IN
    IF v # "ok" THEN [ok |-> FALSE, error |-> v]
    ELSE IF ~Has(token, "userId")
        THEN [ok |-> FALSE, error |-> "Invalid token payload structure"]
    ELSE [ok |-> TRUE, error |-> ""]

(***************************************************************************)
(* RateLimiter (src/server/rateLimit.ts).  The operators take the table    *)
(* and return the table after the call.                                    *)
(***************************************************************************)
\* The handlers of auth.ts pass the endpoint names "signup-otp" and
\* "login-code"; they take the limits of the code-request endpoints.
endpointConfigKey(endpoint) ==
    CASE endpoint = "signup-otp" -> "signup"
      [] endpoint = "login-code" -> "login-link"
      [] OTHER -> endpoint

RATE_LIMIT_CONFIG(endpoint) ==
    CASE endpointConfigKey(endpoint) = "signup" -> [maxRequests |-> 5, windowMs |-> 12]
      [] endpointConfigKey(endpoint) = "login-link" -> [maxRequests |-> 5, windowMs |-> 12]
      [] endpointConfigKey(endpoint) = "email-lookup" -> [maxRequests |-> 10, windowMs |-> 12]
      [] endpointConfigKey(endpoint) = "passkey-attempt" -> [maxRequests |-> 10, windowMs |-> 12]

\* DELETE ... WHERE endpoint = ? AND window_start < now - windowMs
cleanupOldRecords(rows, endpoint, t) ==
    {r \in rows : ~(/\ r.endpoint = endpoint
                    /\ r.windowStart < t - RATE_LIMIT_CONFIG(endpoint).windowMs)}

\* Variant: the select counts the rows of status failed only.
allAttempts_FailedOnly(rows, identifier, type, endpoint, t) ==
    {r \in rows : /\ r.identifier = identifier
                  /\ r.type = type
                  /\ r.endpoint = endpoint
                  /\ r.status = "failed"
                  /\ r.windowStart >= t - RATE_LIMIT_CONFIG(endpoint).windowMs}

\* SELECT ... WHERE identifier, type, endpoint match AND window_start >= now - windowMs
allAttempts(rows, identifier, type, endpoint, t) ==
    {r \in rows : /\ r.identifier = identifier
                  /\ r.type = type
                  /\ r.endpoint = endpoint
                  /\ r.windowStart >= t - RATE_LIMIT_CONFIG(endpoint).windowMs}

\* Variant: the limit is compared with > instead of >=.
limitExceeded_Above(found, endpoint) ==
    /\ Cardinality(found) > RATE_LIMIT_CONFIG(endpoint).maxRequests
    /\ Cardinality(found) > 0

\* totalAttempts >= config.maxRequests (and allAttempts.length > 0)
limitExceeded(found, endpoint) ==
    /\ Cardinality(found) >= RATE_LIMIT_CONFIG(endpoint).maxRequests
    /\ Cardinality(found) > 0

oldestTime(found) ==
    (CHOOSE r \in found : \A q \in found : r.windowStart <= q.windowStart).windowStart

\* Math.ceil((windowMs - (now - oldestTime)) / 1000), in time units
retryAfterOf(found, endpoint, t) ==
    RATE_LIMIT_CONFIG(endpoint).windowMs - (t - oldestTime(found))

newAttemptRow(id, identifier, type, endpoint, jwtHash, t) ==
    [id |-> id, identifier |-> identifier, type |-> type, endpoint |-> endpoint,
     jwtHash |-> jwtHash, status |-> "failed", windowStart |-> t, createdAt |-> t]

\* checkRateLimit run without interruption: the table and the id counter after
\* the call, and whether RateLimitError was thrown.
checkRateLimit(rows, nextId, identifier, type, endpoint, jwtHash, t) ==
    LET cleaned == cleanupOldRecords(rows, endpoint, t)
        found == allAttempts(cleaned, identifier, type, endpoint, t)
    IN  IF limitExceeded(found, endpoint)
        THEN [ok |-> FALSE, rows |-> cleaned, nextId |-> nextId,
              retryAfter |-> retryAfterOf(found, endpoint, t)]
        ELSE [ok |-> TRUE,
              rows |-> cleaned \cup
                  {newAttemptRow(nextId, identifier, type, endpoint, jwtHash, t)},
              nextId |-> nextId + 1, retryAfter |-> 0]

\* UPDATE rate_limits SET status = 'success' WHERE jwt_hash = ? AND endpoint = ?
markAttemptSuccessful(rows, jwtHash, endpoint) ==
    {IF r.jwtHash = jwtHash /\ r.endpoint = endpoint
     THEN [r EXCEPT !.status = "success"] ELSE r : r \in rows}

\* the most recent row of the identifier in the window that has the given status
latestWithStatus(rows, identifier, type, endpoint, status, t) ==
    LET cand == {r \in allAttempts(rows, identifier, type, endpoint, t) :
                    r.status = status}
    IN  {r \in cand : \A q \in cand :
            \/ q.createdAt < r.createdAt
            \/ (q.createdAt = r.createdAt /\ q.id <= r.id)}

markLatestAttemptSuccessful(rows, identifier, type, endpoint, t) ==
    LET hit == latestWithStatus(rows, identifier, type, endpoint, "failed", t)
    IN  {IF r \in hit THEN [r EXCEPT !.status = "success"] ELSE r : r \in rows}

\* Flags the latest attempt of the identifier as made for an unknown e-mail.
markAttemptAsBadEmail(rows, identifier, type, endpoint, t) ==
    LET hit == latestWithStatus(rows, identifier, type, endpoint, "failed", t)
    IN  {IF r \in hit THEN [r EXCEPT !.status = "bad-email"] ELSE r : r \in rows}

\* checkIPRateLimit(endpoint) followed by checkEmailRateLimit(email, endpoint):
\* the second is not reached when the first throws.
checkIPThenEmail(rows, nextId, ip, email, endpoint, jwtHash, t) ==
    LET a == checkRateLimit(rows, nextId, ip, "ip", endpoint, jwtHash, t) IN
    IF ~a.ok THEN a
    ELSE checkRateLimit(a.rows, a.nextId, emailToLowerCase(email), "email",
                        endpoint, jwtHash, t)

(***************************************************************************)
(* Requests.                                                               *)
(***************************************************************************)
Idle(p) == req[p].pc = "idle"

\* A handler that has returned is at "done" until its response is sent
\* (Respond); nothing else happens in between.
NoneDone == \A q \in Procs : req[q].pc # "done"

\* Request p is at position pc of its handler.
At(p, pc) == NoneDone /\ req[p].pc = pc

\* A request served alone: no other request is in flight when it starts, and
\* none starts before it has returned.
Alone(p) == /\ p = "p1"
            /\ \A q \in Procs : Idle(q)

ServedAlone == {"rs_sign", "rl_sign", "pd_check", "pl_check"}

\* A request that may overlap with others in flight: it takes the first free
\* slot, unless requests are served one after another.
CanStart(p) == /\ Idle(p)
               /\ p = "p1" \/ ~Idle("p1")
               /\ NoneDone
               /\ \A q \in Procs : req[q].pc \notin ServedAlone
               /\ serial => Alone(p)

Respond(p) ==
    /\ req[p].pc = "done"
    /\ req' = [req EXCEPT ![p] = [pc |-> "idle"]]
    /\ UNCHANGED <<now, users, userAuthAttempts, passkeyVars, rateLimits,
                   nextRateLimitId, issued, redeemed, serial, quota>>

\* The handler returned {success, error} (thrown = FALSE) or threw (TRUE).
Returned(op, in, success, error) ==
    [pc |-> "done", op |-> op, in |-> in, success |-> success, error |-> error,
     thrown |-> FALSE]

Thrown(op, in, error) ==
    [pc |-> "done", op |-> op, in |-> in, success |-> FALSE, error |-> error,
     thrown |-> TRUE]

\* Variant: the select finds no row.
userByEmail_NoneFound(email) == {}

userByEmail(email) == {u \in users : u.email = email}
userById(id) == {u \in users : u.id = id}
nextUserId == Cardinality(users) + 1

PresentableTokens == SignedTokens \cup {ForgedToken}

(***************************************************************************)
(* SessionManager (lib/auth.ts).                                           *)
(***************************************************************************)
\* Variant: the payload is read without the token being verified.
getAuthCookieResult_Unverified(token, t) ==
    IF token = NoToken THEN NoUser
    ELSE IF Has(token, "userId") THEN token.userId
    ELSE NoUser

\* getAuthCookie: the userId of the cookie's token, NoUser for undefined
getAuthCookieResult(token, t) ==
    IF token = NoToken THEN NoUser
    ELSE IF verifySessionToken(token, t).ok THEN token.userId
    ELSE NoUser

getAuthCookie(p, token) ==
    /\ Alone(p)
    /\ LET userId == getAuthCookieResult(token, now) IN
       req' = [req EXCEPT ![p] =
           Returned("getAuthCookie", [token |-> token], userId # NoUser, "")
               @@ [userId |-> userId]]
    /\ UNCHANGED <<now, users, userAuthAttempts, passkeyVars, rateLimits,
                   nextRateLimitId, issued, redeemed, serial, quota>>

\* Variant: logging out revokes the session tokens the server has signed.
logout_Revoking(p) ==
    /\ Alone(p)
    /\ req' = [req EXCEPT ![p] =
           Returned("logout", [none |-> TRUE], TRUE, "") @@ [session |-> NoToken]]
    /\ issued' = {i \in issued : i.by # "setAuthCookie"}
    /\ UNCHANGED <<now, users, userAuthAttempts, passkeyVars, rateLimits,
                   nextRateLimitId, redeemed, serial, quota>>

\* logout: clearAuthCookie() deletes the cookie with the response
logout(p) ==
    /\ Alone(p)
    /\ req' = [req EXCEPT ![p] =
           Returned("logout", [none |-> TRUE], TRUE, "") @@ [session |-> NoToken]]
    /\ UNCHANGED <<now, users, userAuthAttempts, passkeyVars, rateLimits,
                   nextRateLimitId, issued, redeemed, serial, quota>>

\* setAuthCookie(userId): the session token signed at time t
sessionIssue(userId, t) == [tok |-> signSessionToken(userId, t), by |-> "setAuthCookie"]

(***************************************************************************)
(* OTPAuthFlow (src/server/auth.ts): requesting a code.                    *)
(***************************************************************************)
newAuthAttempt(email, name, userId, code, purpose, t) ==
    [email |-> email, name |-> name, userId |-> userId,
     codeHash |-> hashOTPCode(code), purpose |-> purpose,
     expiresAt |-> t + OTP_EXPIRES_IN, used |-> FALSE]

\* requestSignupOTP up to the insert of the AuthAttempt
requestSignupOTP(p, name, email, ip, code) ==
    /\ Alone(p)
    /\ Len(userAuthAttempts) < quota.attempts
    /\ nextRateLimitId <= quota.rows
    /\ LET in == [name |-> name, email |-> email, ip |-> ip]
           rl == checkIPThenEmail(rateLimits, nextRateLimitId, ip, email,
                                  "signup-otp", NoHash, now)
       IN  /\ rateLimits' = rl.rows
           /\ nextRateLimitId' = rl.nextId
           /\ IF ~rl.ok
              THEN /\ req' = [req EXCEPT ![p] =
                                Thrown("requestSignupOTP", in, "Rate limit exceeded")]
                   /\ UNCHANGED <<userAuthAttempts, redeemed>>
              ELSE IF userByEmail(email) # {}
              THEN /\ req' = [req EXCEPT ![p] =
                                Thrown("requestSignupOTP", in, AccountExistsError)]
                   /\ UNCHANGED <<userAuthAttempts, redeemed>>
              ELSE /\ userAuthAttempts' = Append(userAuthAttempts,
                          newAuthAttempt(email, name, NoUser, code, "signup", now))
                   /\ redeemed' = Append(redeemed, 0)
                   /\ req' = [req EXCEPT ![p] =
                          [pc |-> "rs_sign", op |-> "requestSignupOTP", in |-> in,
                           attemptId |-> Len(userAuthAttempts) + 1]]
    /\ UNCHANGED <<now, users, passkeyVars, issued, serial, quota>>

\* ... signing the token, marking the rate-limit attempt, returning
requestSignupOTPSign(p) ==
    /\ At(p, "rs_sign")
    /\ LET token == signCodeVerificationToken(NoUser, req[p].in.email,
                                              req[p].attemptId, now)
       IN  /\ issued' = issued \cup {[tok |-> token, by |-> "requestSignupOTP"]}
           /\ rateLimits' = markAttemptSuccessful(rateLimits, hashJWT(token), "signup-otp")
           /\ req' = [req EXCEPT ![p] =
                  Returned("requestSignupOTP", req[p].in, TRUE, "")
                      @@ [token |-> token]]
    /\ UNCHANGED <<now, users, userAuthAttempts, passkeyVars, nextRateLimitId,
                   redeemed, serial, quota>>

\* requestLoginCode up to the insert of the AuthAttempt
requestLoginCode(p, email, ip, code) ==
    /\ Alone(p)
    /\ Len(userAuthAttempts) < quota.attempts
    /\ nextRateLimitId <= quota.rows
    /\ LET in == [email |-> email, ip |-> ip]
           rl == checkIPThenEmail(rateLimits, nextRateLimitId, ip, email,
                                  "login-code", NoHash, now)
           user == userByEmail(email)
           userId == IF user = {} THEN NoUser ELSE (CHOOSE u \in user : TRUE).id
       IN  /\ rateLimits' = rl.rows
           /\ nextRateLimitId' = rl.nextId
           /\ IF ~rl.ok
              THEN /\ req' = [req EXCEPT ![p] =
                                Thrown("requestLoginCode", in, "Rate limit exceeded")]
                   /\ UNCHANGED <<userAuthAttempts, redeemed>>
              ELSE /\ userAuthAttempts' = Append(userAuthAttempts,
                          newAuthAttempt(email, "", userId, code, "login", now))
                   /\ redeemed' = Append(redeemed, 0)
                   /\ req' = [req EXCEPT ![p] =
                          [pc |-> "rl_sign", op |-> "requestLoginCode", in |-> in,
                           attemptId |-> Len(userAuthAttempts) + 1,
                           userId |-> userId]]
    /\ UNCHANGED <<now, users, passkeyVars, issued, serial, quota>>

\* the rate-limit table after requestLoginCode has signed `token`
loginCodeMarks(rows, token, userId, in, t) ==
    LET marked == markAttemptSuccessful(rows, hashJWT(token), "login-code") IN
    IF userId # NoUser THEN marked
    ELSE markAttemptAsBadEmail(
             markAttemptAsBadEmail(marked, in.ip, "ip", "login-code", t),
             emailToLowerCase(in.email), "email", "login-code", t)

\* Variant: the response tells whether the token was made for an account.
loginCodeResponse_OnlyForAccounts(token) ==
    [success |-> Has(token, "userId"), token |-> token]

\* the response body of requestLoginCode, as the client reads it
loginCodeResponse(token) == [success |-> TRUE, token |-> token]

requestLoginCodeSign(p) ==
    /\ At(p, "rl_sign")
    /\ LET token == signCodeVerificationToken(req[p].userId, req[p].in.email,
                                              req[p].attemptId, now)
       IN  /\ issued' = issued \cup {[tok |-> token, by |-> "requestLoginCode"]}
           /\ rateLimits' = loginCodeMarks(rateLimits, token, req[p].userId,
                                           req[p].in, now)
           /\ req' = [req EXCEPT ![p] =
                  Returned("requestLoginCode", req[p].in,
                           loginCodeResponse(token).success, "")
                      @@ [token |-> loginCodeResponse(token).token]]
    /\ UNCHANGED <<now, users, userAuthAttempts, passkeyVars, nextRateLimitId,
                   redeemed, serial, quota>>

(***************************************************************************)
(* OTPAuthFlow: redeeming a code.                                          *)
(***************************************************************************)
payloadEmail(payload) == IF Has(payload, "email") THEN payload.email ELSE ""
payloadUserId(payload) == IF Has(payload, "userId") THEN payload.userId ELSE NoUser

\* Variant: the expiry of the attempt is not looked at.
attemptExpired_Never(attempt, t) == FALSE

\* new Date(attempt.expiresAt) < new Date()
attemptExpired(attempt, t) == attempt.expiresAt < t

\* Variant: the hashes are not compared.
codeMismatch_Never(attempt, code) == FALSE

\* attempt.codeHash !== hashOTPCode(data.code.toUpperCase())
codeMismatch(attempt, code) == attempt.codeHash # hashOTPCode(toUpperCase(code))

\* Variant: the `used` flag of the attempt is not looked at.
loginAttemptRejected_UsedIgnored(attempt, payload, code, t) ==
    \/ attemptExpired(attempt, t)
    \/ attempt.purpose # "login"
    \/ (payloadEmail(payload) # "" /\ attempt.email # payloadEmail(payload))
    \/ (payloadUserId(payload) # NoUser /\ attempt.userId # payloadUserId(payload))
    \/ codeMismatch(attempt, code)

\* The checks of verifyLoginCodeAndAuthenticate on the row it has read, down
\* to the comparison of the hashes.
loginAttemptRejected(attempt, payload, code, t) ==
    \/ attempt.used
    \/ attemptExpired(attempt, t)
    \/ attempt.purpose # "login"
    \/ (payloadEmail(payload) # "" /\ attempt.email # payloadEmail(payload))
    \/ (payloadUserId(payload) # NoUser /\ attempt.userId # payloadUserId(payload))
    \/ codeMismatch(attempt, code)

\* Variant: the attempt's userId is not looked at.
loginHasAccount_Always(attempt) == TRUE

\* if (attempt.userId) { ... authenticate ... } else generic error
loginHasAccount(attempt) == attempt.userId # NoUser

\* Variant: the purpose of the attempt is not looked at.
signupAttemptRejected_PurposeIgnored(attempt, payload, code, t) ==
    \/ attempt.used
    \/ attemptExpired(attempt, t)
    \/ attempt.email # payloadEmail(payload)
    \/ codeMismatch(attempt, code)

\* The checks of verifySignupOTPAndCreateUser on the row it has read.
signupAttemptRejected(attempt, payload, code, t) ==
    \/ attempt.used
    \/ attemptExpired(attempt, t)
    \/ attempt.purpose # "signup"
    \/ attempt.email # payloadEmail(payload)
    \/ codeMismatch(attempt, code)

\* inputValidator and `await verifyCodeVerificationToken(data.token)`
verifyStart(p, op, next, token, code) ==
    /\ CanStart(p)
    /\ LET in == [token |-> token, code |-> code]
           v == verifyCodeVerificationToken(token, now)
       IN  req' = [req EXCEPT ![p] =
               IF ~codeSchemaOk(code)
               THEN Thrown(op, in, "Code must be alphanumeric (A-Z, 0-9)")
               ELSE IF ~v.ok
               THEN Returned(op, in, FALSE, "Token verification failed: " \o v.error)
               ELSE [pc |-> next, op |-> op, in |-> in]]
    /\ UNCHANGED <<now, users, userAuthAttempts, passkeyVars, rateLimits,
                   nextRateLimitId, issued, redeemed, serial, quota>>

verifyLoginCodeAndAuthenticate(p, token, code) ==
    verifyStart(p, "verifyLoginCodeAndAuthenticate", "vl_load", token, code)

\* Variant: an attempt that fails a check is consumed.
verifyLoginLoad_ConsumesOnFailure(p) ==
    /\ At(p, "vl_load")
    /\ LET id == req[p].in.token.userAuthAttemptId
           fail == Returned(req[p].op, req[p].in, FALSE, GenericError)
           rejected == /\ id \in DOMAIN userAuthAttempts
                       /\ loginAttemptRejected(userAuthAttempts[id], req[p].in.token,
                                               req[p].in.code, now)
       IN  /\ req' = [req EXCEPT ![p] =
                  IF id \notin DOMAIN userAuthAttempts THEN fail
                  ELSE IF rejected THEN fail
                  ELSE IF ~loginHasAccount(userAuthAttempts[id]) THEN fail
                  ELSE [pc |-> "vl_user", op |-> req[p].op, in |-> req[p].in,
                        attemptId |-> id, attempt |-> userAuthAttempts[id]]]
           /\ userAuthAttempts' = IF rejected
                                  THEN [userAuthAttempts EXCEPT ![id].used = TRUE]
                                  ELSE userAuthAttempts
    /\ UNCHANGED <<now, users, passkeyVars, rateLimits,
                   nextRateLimitId, issued, redeemed, serial, quota>>

\* select the AuthAttempt and validate it
verifyLoginLoad(p) ==
    /\ At(p, "vl_load")
    /\ LET id == req[p].in.token.userAuthAttemptId
           fail == Returned(req[p].op, req[p].in, FALSE, GenericError)
       IN  req' = [req EXCEPT ![p] =
               IF id \notin DOMAIN userAuthAttempts THEN fail
               ELSE IF loginAttemptRejected(userAuthAttempts[id], req[p].in.token,
                                            req[p].in.code, now) THEN fail
               ELSE IF ~loginHasAccount(userAuthAttempts[id]) THEN fail
               ELSE [pc |-> "vl_user", op |-> req[p].op, in |-> req[p].in,
                     attemptId |-> id, attempt |-> userAuthAttempts[id]]]
    /\ UNCHANGED <<now, users, userAuthAttempts, passkeyVars, rateLimits,
                   nextRateLimitId, issued, redeemed, serial, quota>>

\* select the user of the attempt
verifyLoginUser(p) ==
    /\ At(p, "vl_user")
    /\ req' = [req EXCEPT ![p] =
           IF userById(req[p].attempt.userId) = {}
           THEN Returned(req[p].op, req[p].in, FALSE, GenericError)
           ELSE [req[p] EXCEPT !.pc = "vl_used"]]
    /\ UNCHANGED <<now, users, userAuthAttempts, passkeyVars, rateLimits,
                   nextRateLimitId, issued, redeemed, serial, quota>>

\* Variant: the update leaves the row as it was.
markUsed_NoUpdate(attempts, id) == attempts

\* UPDATE user_auth_attempts SET used = true WHERE id = attempt.id
markUsed(attempts, id) == [attempts EXCEPT ![id].used = TRUE]

verifyLoginMarkUsed(p) ==
    /\ At(p, "vl_used")
    /\ userAuthAttempts' = markUsed(userAuthAttempts, req[p].attemptId)
    /\ req' = [req EXCEPT ![p].pc = "vl_finish"]
    /\ UNCHANGED <<now, users, passkeyVars, rateLimits, nextRateLimitId, issued,
                   redeemed, serial, quota>>

\* markAttemptSuccessful, setAuthCookie, return {success: true, user}
verifyLoginFinish(p) ==
    /\ At(p, "vl_finish")
    /\ LET s == sessionIssue(req[p].attempt.userId, now) IN
       /\ rateLimits' = markAttemptSuccessful(rateLimits, hashJWT(req[p].in.token),
                                              "login-code")
       /\ issued' = issued \cup {s}
       /\ redeemed' = [redeemed EXCEPT ![req[p].attemptId] = @ + 1]
       /\ req' = [req EXCEPT ![p] =
              Returned(req[p].op, req[p].in, TRUE, "")
                  @@ [attemptId |-> req[p].attemptId,
                      userId |-> req[p].attempt.userId, session |-> s.tok]]
    /\ UNCHANGED <<now, users, userAuthAttempts, passkeyVars, nextRateLimitId,
                   serial, quota>>

verifySignupOTPAndCreateUser(p, token, code) ==
    verifyStart(p, "verifySignupOTPAndCreateUser", "vs_load", token, code)

verifySignupLoad(p) ==
    /\ At(p, "vs_load")
    /\ LET id == req[p].in.token.userAuthAttemptId
           fail == Returned(req[p].op, req[p].in, FALSE, GenericError)
       IN  req' = [req EXCEPT ![p] =
               IF id \notin DOMAIN userAuthAttempts THEN fail
               ELSE IF signupAttemptRejected(userAuthAttempts[id], req[p].in.token,
                                             req[p].in.code, now) THEN fail
               ELSE [pc |-> "vs_existing", op |-> req[p].op, in |-> req[p].in,
                     attemptId |-> id, attempt |-> userAuthAttempts[id]]]
    /\ UNCHANGED <<now, users, userAuthAttempts, passkeyVars, rateLimits,
                   nextRateLimitId, issued, redeemed, serial, quota>>

\* race-condition protection: is the e-mail still unclaimed?
verifySignupExisting(p) ==
    /\ At(p, "vs_existing")
    /\ req' = [req EXCEPT ![p] =
           IF userByEmail(req[p].attempt.email) # {}
           THEN Returned(req[p].op, req[p].in, FALSE, AccountExistsError)
           ELSE [req[p] EXCEPT !.pc = "vs_used"]]
    /\ UNCHANGED <<now, users, userAuthAttempts, passkeyVars, rateLimits,
                   nextRateLimitId, issued, redeemed, serial, quota>>

\* mark the attempt used, then `if (!attempt.name)` returns an error
verifySignupMarkUsed(p) ==
    /\ At(p, "vs_used")
    /\ userAuthAttempts' = markUsed(userAuthAttempts, req[p].attemptId)
    /\ req' = [req EXCEPT ![p] =
           IF req[p].attempt.name = ""
           THEN Returned(req[p].op, req[p].in, FALSE,
                         "Invalid signup attempt. Please start over.")
           ELSE [req[p] EXCEPT !.pc = "vs_insert"]]
    /\ UNCHANGED <<now, users, passkeyVars, rateLimits, nextRateLimitId, issued,
                   redeemed, serial, quota>>

\* Variant: the users table has no UNIQUE constraint on email.
uniqueEmailViolated_NoConstraint(email) == FALSE

\* users.email is UNIQUE: a row with an e-mail the table already holds is refused
uniqueEmailViolated(email) == userByEmail(email) # {}

\* INSERT INTO users: the UNIQUE constraint on email makes the insert throw,
\* and the handler's catch returns the error's message
verifySignupInsert(p) ==
    /\ At(p, "vs_insert")
    /\ IF uniqueEmailViolated(req[p].attempt.email)
       THEN /\ req' = [req EXCEPT ![p] =
                   Returned(req[p].op, req[p].in, FALSE,
                            "UNIQUE constraint failed: users.email")]
            /\ UNCHANGED users
       ELSE /\ users' = users \cup {[id |-> nextUserId, name |-> req[p].attempt.name,
                                     email |-> req[p].attempt.email]}
            /\ req' = [req EXCEPT ![p] =
                   [req[p] EXCEPT !.pc = "vs_finish"] @@ [userId |-> nextUserId]]
    /\ UNCHANGED <<now, userAuthAttempts, passkeyVars, rateLimits, nextRateLimitId,
                   issued, redeemed, serial, quota>>

\* setAuthCookie(newUser.id), return {success: true, user: newUser}
verifySignupFinish(p) ==
    /\ At(p, "vs_finish")
    /\ LET s == sessionIssue(req[p].userId, now) IN
       /\ issued' = issued \cup {s}
       /\ redeemed' = [redeemed EXCEPT ![req[p].attemptId] = @ + 1]
       /\ req' = [req EXCEPT ![p] =
              Returned(req[p].op, req[p].in, TRUE, "")
                  @@ [attemptId |-> req[p].attemptId, userId |-> req[p].userId,
                      session |-> s.tok]]
    /\ UNCHANGED <<now, users, userAuthAttempts, passkeyVars, rateLimits,
                   nextRateLimitId, serial, quota>>

(***************************************************************************)
(* PasskeyAuthFlow (server/passkey.ts) and the requireUser middleware.     *)
(***************************************************************************)
\* requireUser: the user of the session cookie, or the error it throws
requireUser(token, t) ==
    LET userId == getAuthCookieResult(token, t) IN
    IF userId = NoUser THEN [ok |-> FALSE, error |-> "Not authenticated", id |-> NoUser]
    ELSE IF userById(userId) = {}
        THEN [ok |-> FALSE, error |-> "User not found", id |-> NoUser]
    ELSE [ok |-> TRUE, error |-> "", id |-> userId]

\* Variant: the select finds no passkey of the user.
passkeysOfUser_None(userId) == {}

\* SELECT ... FROM passkeys WHERE user_id = ?
passkeysOfUser(userId) == {k \in passkeys : k.userId = userId}
passkeysOfCredential(credentialId) == {k \in passkeys : k.credentialId = credentialId}

\* .limit(1): the row with the lowest rowid
firstRow(rows) == CHOOSE k \in rows : \A q \in rows : k.id <= q.id

\* What an authenticator sends back, as the WebAuthn library will judge it:
\* the credential it used, its signature counter, and whether it is a genuine
\* assertion over the challenge the server expects.
AuthResponses == [id : CredentialIds, counter : 0..MaxCounter, valid : {TRUE}]
                 \cup [id : CredentialIds, counter : {0}, valid : {FALSE}]

\* A new credential starts with the signature counter 0.
RegistrationResponses == {r \in AuthResponses : r.counter = 0}

\* @simplewebauthn/server verifyRegistrationResponse, as a function of its input
swaVerifyRegistrationResponse(response, expectedChallenge) ==
    [verified |-> response.valid,
     credentialId |-> response.id, counter |-> response.counter]

\* @simplewebauthn/server verifyAuthenticationResponse, as a function of its input
swaVerifyAuthenticationResponse(response, expectedChallenge, credential) ==
    [verified |-> response.valid /\ response.id = credential.credentialId,
     newCounter |-> response.counter]

generateRegistrationOptions(p, session, userId) ==
    /\ Alone(p)
    /\ nextChallenge <= MaxChallenges
    /\ LET in == [session |-> session, userId |-> userId]
           op == "generateRegistrationOptions"
           user == requireUser(session, now)
           token == signPasskeyChallengeToken(nextChallenge, userId,
                        (CHOOSE u \in userById(user.id) : TRUE).email, now)
       IN  IF ~user.ok
           THEN /\ req' = [req EXCEPT ![p] = Thrown(op, in, user.error)]
                /\ UNCHANGED <<issued, passkeyVars>>
           ELSE IF user.id # userId
           THEN /\ req' = [req EXCEPT ![p] = Thrown(op, in, "Not authorized")]
                /\ UNCHANGED <<issued, passkeyVars>>
           ELSE IF passkeysOfUser(userId) # {}
           THEN /\ req' = [req EXCEPT ![p] =
                       Thrown(op, in, "User already has a passkey registered")]
                /\ UNCHANGED <<issued, passkeyVars>>
           ELSE /\ issued' = issued \cup {[tok |-> token, by |-> op]}
                /\ nextChallenge' = nextChallenge + 1
                /\ req' = [req EXCEPT ![p] =
                       Returned(op, in, TRUE, "") @@ [token |-> token]]
                /\ UNCHANGED <<passkeys, nextPasskeyId>>
    /\ UNCHANGED <<now, users, userAuthAttempts, rateLimits, nextRateLimitId,
                   redeemed, serial, quota>>

\* verifyRegistrationResponse: middleware, the token and its userId
verifyRegistrationResponse(p, session, userId, token, response) ==
    /\ CanStart(p)
    /\ LET in == [session |-> session, userId |-> userId, token |-> token,
                  response |-> response]
           op == "verifyRegistrationResponse"
           user == requireUser(session, now)
           v == verifyPasskeyChallengeToken(token, now)
       IN  req' = [req EXCEPT ![p] =
               IF ~user.ok THEN Thrown(op, in, user.error)
               ELSE IF user.id # userId THEN Thrown(op, in, "Not authorized")
               ELSE IF ~v.ok
               THEN Returned(op, in, FALSE, "Token verification failed: " \o v.error)
               ELSE IF token.userId # userId
               THEN Returned(op, in, FALSE, "Token user ID does not match")
               ELSE [pc |-> "pr_check", op |-> op, in |-> in]]
    /\ UNCHANGED <<now, users, userAuthAttempts, passkeyVars, rateLimits,
                   nextRateLimitId, issued, redeemed, serial, quota>>

\* does the user already have a passkey?
verifyRegistrationCheck(p) ==
    /\ At(p, "pr_check")
    /\ req' = [req EXCEPT ![p] =
           IF passkeysOfUser(req[p].in.userId) # {}
           THEN Returned(req[p].op, req[p].in, FALSE,
                         "User already has a passkey registered")
           ELSE [req[p] EXCEPT !.pc = "pr_insert"]]
    /\ UNCHANGED <<now, users, userAuthAttempts, passkeyVars, rateLimits,
                   nextRateLimitId, issued, redeemed, serial, quota>>

\* the library's verification, then the insert of the credential
verifyRegistrationInsert(p) ==
    /\ At(p, "pr_insert")
    /\ LET verification == swaVerifyRegistrationResponse(req[p].in.response,
                               req[p].in.token.challenge)
       IN  IF ~verification.verified
           THEN /\ req' = [req EXCEPT ![p] =
                       Returned(req[p].op, req[p].in, FALSE,
                                "Registration verification failed")]
                /\ UNCHANGED passkeyVars
           ELSE /\ nextPasskeyId <= MaxPasskeyRows
                /\ passkeys' = passkeys \cup
                       {[id |-> nextPasskeyId, userId |-> req[p].in.userId,
                         credentialId |-> verification.credentialId,
                         counter |-> verification.counter]}
                /\ nextPasskeyId' = nextPasskeyId + 1
                /\ UNCHANGED nextChallenge
                /\ req' = [req EXCEPT ![p] = Returned(req[p].op, req[p].in, TRUE, "")]
    /\ UNCHANGED <<now, users, userAuthAttempts, rateLimits, nextRateLimitId,
                   issued, redeemed, serial, quota>>

\* initiatePasskeyDiscovery: a challenge-only token, rate limited by IP
initiatePasskeyDiscovery(p, ip) ==
    /\ Alone(p)
    /\ nextChallenge <= MaxChallenges
    /\ LET in == [ip |-> ip]
           op == "initiatePasskeyDiscovery"
           token == signPasskeyDiscoveryToken(nextChallenge, now)
           rl == checkRateLimit(rateLimits, nextRateLimitId, ip, "ip",
                                "passkey-attempt", hashJWT(token), now)
       IN  /\ rateLimits' = rl.rows
           /\ nextRateLimitId' = rl.nextId
           /\ nextChallenge' = nextChallenge + 1
           /\ IF ~rl.ok
              THEN /\ req' = [req EXCEPT ![p] =
                          Returned(op, in, FALSE, "Rate limit exceeded")]
                   /\ UNCHANGED issued
              ELSE /\ issued' = issued \cup {[tok |-> token, by |-> op]}
                   /\ req' = [req EXCEPT ![p] =
                          Returned(op, in, TRUE, "") @@ [token |-> token]]
    /\ UNCHANGED <<now, users, userAuthAttempts, passkeys, nextPasskeyId,
                   redeemed, serial, quota>>

\* initiatePasskeyLogin: a token for the passkey of the user with this e-mail
initiatePasskeyLogin(p, email, ip) ==
    /\ Alone(p)
    /\ nextChallenge <= MaxChallenges
    /\ LET in == [email |-> email, ip |-> ip]
           op == "initiatePasskeyLogin"
           user == userByEmail(email)
           userId == (CHOOSE u \in user : TRUE).id
           token == signPasskeyChallengeToken(nextChallenge, userId, email, now)
           rl == checkIPThenEmail(rateLimits, nextRateLimitId, ip, email,
                                  "passkey-attempt", hashJWT(token), now)
       IN  IF user = {}
           THEN /\ req' = [req EXCEPT ![p] = Returned(op, in, FALSE, "User not found")]
                /\ UNCHANGED <<rateLimits, nextRateLimitId, nextChallenge, issued>>
           ELSE IF passkeysOfUser(userId) = {}
           THEN /\ req' = [req EXCEPT ![p] =
                       Returned(op, in, FALSE, "No passkey found for this user")]
                /\ UNCHANGED <<rateLimits, nextRateLimitId, nextChallenge, issued>>
           ELSE /\ rateLimits' = rl.rows
                /\ nextRateLimitId' = rl.nextId
                /\ nextChallenge' = nextChallenge + 1
                /\ IF ~rl.ok
                   THEN /\ req' = [req EXCEPT ![p] =
                               Returned(op, in, FALSE, "Rate limit exceeded")]
                        /\ UNCHANGED issued
                   ELSE /\ issued' = issued \cup {[tok |-> token, by |-> op]}
                        /\ req' = [req EXCEPT ![p] =
                               Returned(op, in, TRUE, "") @@ [token |-> token]]
    /\ UNCHANGED <<now, users, userAuthAttempts, passkeys, nextPasskeyId,
                   redeemed, serial, quota>>

\* verifyAuthenticationResponse: the token is tried as a discovery token
\* first, then as a challenge token
verifyAuthenticationResponse(p, token, response) ==
    /\ CanStart(p)
    /\ LET in == [token |-> token, response |-> response]
           op == "verifyAuthenticationResponse"
           d == verifyPasskeyDiscoveryToken(token, now)
           c == verifyPasskeyChallengeToken(token, now)
       IN  req' = [req EXCEPT ![p] =
               IF d.ok
               THEN [pc |-> "pa_load", op |-> op, in |-> in, isDiscovery |-> TRUE,
                     expectedChallenge |-> token.challenge, userId |-> NoUser]
               ELSE IF c.ok
               THEN [pc |-> "pa_load", op |-> op, in |-> in, isDiscovery |-> FALSE,
                     expectedChallenge |-> token.challenge, userId |-> token.userId]
               ELSE Returned(op, in, FALSE, "Token verification failed: " \o c.error)]
    /\ UNCHANGED <<now, users, userAuthAttempts, passkeyVars, rateLimits,
                   nextRateLimitId, issued, redeemed, serial, quota>>

\* the credential row: by the response's credential id in discovery mode, by
\* the token's userId otherwise
verifyAuthenticationLoad(p) ==
    /\ At(p, "pa_load")
    /\ LET found == IF req[p].isDiscovery
                    THEN passkeysOfCredential(req[p].in.response.id)
                    ELSE passkeysOfUser(req[p].userId)
       IN  req' = [req EXCEPT ![p] =
               IF ~req[p].isDiscovery /\ req[p].userId = NoUser
               THEN Returned(req[p].op, req[p].in, FALSE, "Invalid token")
               ELSE IF found = {}
               THEN Returned(req[p].op, req[p].in, FALSE, "Passkey not found")
               ELSE [pc |-> "pa_verify", op |-> req[p].op, in |-> req[p].in,
                     isDiscovery |-> req[p].isDiscovery,
                     expectedChallenge |-> req[p].expectedChallenge,
                     userId |-> IF req[p].isDiscovery THEN firstRow(found).userId
                                ELSE req[p].userId,
                     passkey |-> firstRow(found)]]
    /\ UNCHANGED <<now, users, userAuthAttempts, passkeyVars, rateLimits,
                   nextRateLimitId, issued, redeemed, serial, quota>>

\* newCounter <= passkey.counter, on the row the request has read
counterRejected(newCounter, passkey) == newCounter <= passkey.counter

\* the library's verification and the signature-counter check
verifyAuthenticationVerify(p) ==
    /\ At(p, "pa_verify")
    /\ LET verification == swaVerifyAuthenticationResponse(req[p].in.response,
                               req[p].expectedChallenge, req[p].passkey)
       IN  req' = [req EXCEPT ![p] =
               IF ~verification.verified
               THEN Returned(req[p].op, req[p].in, FALSE,
                             "Authentication verification failed")
               ELSE IF counterRejected(verification.newCounter, req[p].passkey)
               THEN Returned(req[p].op, req[p].in, FALSE, ClonedError)
                        @@ [passkey |-> req[p].passkey]
               ELSE [req[p] EXCEPT !.pc = "pa_update"]
                        @@ [newCounter |-> verification.newCounter]]
    /\ UNCHANGED <<now, users, userAuthAttempts, passkeyVars, rateLimits,
                   nextRateLimitId, issued, redeemed, serial, quota>>

\* UPDATE passkeys SET counter = newCounter WHERE id = passkey.id
updateCounter(rows, id, newCounter) ==
    {IF k.id = id THEN [k EXCEPT !.counter = newCounter] ELSE k : k \in rows}

verifyAuthenticationUpdate(p) ==
    /\ At(p, "pa_update")
    /\ passkeys' = updateCounter(passkeys, req[p].passkey.id, req[p].newCounter)
    /\ req' = [req EXCEPT ![p].pc = "pa_finish"]
    /\ UNCHANGED <<now, users, userAuthAttempts, nextPasskeyId, nextChallenge,
                   rateLimits, nextRateLimitId, issued, redeemed, serial, quota>>

\* markAttemptSuccessful, setAuthCookie, return {success: true}.  The call
\* of setAuthCookie is not awaited: the session token is signed, and the
\* response carries its cookie or goes out before the cookie is set.
verifyAuthenticationFinish(p) ==
    /\ At(p, "pa_finish")
    /\ rateLimits' = markAttemptSuccessful(rateLimits, hashJWT(req[p].in.token),
                                           "passkey-attempt")
    /\ IF req[p].userId = NoUser
       THEN /\ req' = [req EXCEPT ![p] =
                   Returned(req[p].op, req[p].in, FALSE, "User ID not found")]
            /\ UNCHANGED issued
       ELSE LET s == sessionIssue(req[p].userId, now) IN
            /\ issued' = issued \cup {s}
            /\ \E cookie \in {s.tok, NoToken} :
               req' = [req EXCEPT ![p] =
                   Returned(req[p].op, req[p].in, TRUE, "")
                       @@ [userId |-> req[p].userId, session |-> cookie,
                           passkey |-> req[p].passkey,
                           newCounter |-> req[p].newCounter]]
    /\ UNCHANGED <<now, users, userAuthAttempts, passkeyVars, nextRateLimitId,
                   redeemed, serial, quota>>

\* Variant: the handler does not compare the session user with userId.
deletePasskey_AnyUser(p, session, userId) ==
    /\ Alone(p)
    /\ LET in == [session |-> session, userId |-> userId]
           op == "deletePasskey"
           user == requireUser(session, now)
       IN  IF ~user.ok
           THEN /\ req' = [req EXCEPT ![p] = Thrown(op, in, user.error)]
                /\ UNCHANGED passkeys
           ELSE /\ passkeys' = passkeys \ {k \in passkeys : k.userId = userId}
                /\ req' = [req EXCEPT ![p] = Returned(op, in, TRUE, "")]
    /\ UNCHANGED <<now, users, userAuthAttempts, nextPasskeyId, nextChallenge,
                   rateLimits, nextRateLimitId, issued, redeemed, serial, quota>>

deletePasskey(p, session, userId) ==
    /\ Alone(p)
    /\ LET in == [session |-> session, userId |-> userId]
           op == "deletePasskey"
           user == requireUser(session, now)
       IN  IF ~user.ok
           THEN /\ req' = [req EXCEPT ![p] = Thrown(op, in, user.error)]
                /\ UNCHANGED passkeys
           ELSE IF user.id # userId
           THEN /\ req' = [req EXCEPT ![p] = Thrown(op, in, "Not authorized")]
                /\ UNCHANGED passkeys
           ELSE /\ passkeys' = passkeys \ passkeysOfUser(userId)
                /\ req' = [req EXCEPT ![p] = Returned(op, in, TRUE, "")]
    /\ UNCHANGED <<now, users, userAuthAttempts, nextPasskeyId, nextChallenge,
                   rateLimits, nextRateLimitId, issued, redeemed, serial, quota>>

\* Time passes, d units at once.  The clock starts with the first request:
\* before it, time passing changes nothing.
Tick(d) ==
    /\ NoneDone
    /\ nextRateLimitId > 1
    /\ now + d <= MaxTicks * d
    /\ now' = now + d
    /\ UNCHANGED <<users, userAuthAttempts, passkeyVars, rateLimits, nextRateLimitId,
                   issued, req, redeemed, serial, quota>>

(***************************************************************************)
(* The one-time-code flows and the session cookie, served concurrently     *)
(* (Spec) and one request after another (SpecSeq).                         *)
(***************************************************************************)
InitTables ==
    /\ now = 0
    /\ users = {}
    /\ userAuthAttempts = <<>>
    /\ passkeys = {}
    /\ nextPasskeyId = 1
    /\ nextChallenge = 1
    /\ rateLimits = {}
    /\ nextRateLimitId = 1
    /\ issued = {}
    /\ req = [p \in Procs |-> [pc |-> "idle"]]
    /\ redeemed = <<>>

\* The code requests of a run create at most MaxAttempts AuthAttempts and
\* start while fewer than MaxRequestRows rate-limit rows have been made.
RequestQuota == [attempts |-> MaxAttempts, rows |-> MaxRequestRows]

Init == InitTables /\ serial = FALSE /\ quota = RequestQuota
InitSeq == InitTables /\ serial = TRUE /\ quota = RequestQuota

\* The tokens a client presents with a code: those issued for an AuthAttempt,
\* and a forged one.
CodeTokens ==
    {token \in PresentableTokens : Has(token, "userAuthAttemptId")} \cup {ForgedToken}

Next ==
    \/ \E p \in Procs, name \in Names, email \in Emails, ip \in ClientIPs,
          code \in generateOTPCode(Len(userAuthAttempts)) :
              requestSignupOTP(p, name, email, ip, code)
    \/ \E p \in Procs : requestSignupOTPSign(p)
    \/ \E p \in Procs, email \in Emails, ip \in ClientIPs,
          code \in generateOTPCode(Len(userAuthAttempts)) :
              requestLoginCode(p, email, ip, code)
    \/ \E p \in Procs : requestLoginCodeSign(p)
    \/ \E p \in Procs, token \in CodeTokens, code \in SubmittedCodes :
          verifySignupOTPAndCreateUser(p, token, code)
    \/ \E p \in Procs : verifySignupLoad(p)
    \/ \E p \in Procs : verifySignupExisting(p)
    \/ \E p \in Procs : verifySignupMarkUsed(p)
    \/ \E p \in Procs : verifySignupInsert(p)
    \/ \E p \in Procs : verifySignupFinish(p)
    \/ \E p \in Procs, token \in CodeTokens, code \in SubmittedCodes :
          verifyLoginCodeAndAuthenticate(p, token, code)
    \/ \E p \in Procs : verifyLoginLoad(p)
    \/ \E p \in Procs : verifyLoginUser(p)
    \/ \E p \in Procs : verifyLoginMarkUsed(p)
    \/ \E p \in Procs : verifyLoginFinish(p)
    \/ \E p \in Procs, token \in PresentableTokens \cup {NoToken} :
          getAuthCookie(p, token)
    \/ \E p \in Procs : logout(p)
    \/ \E p \in Procs : Respond(p)
    \/ Tick(OTP_EXPIRES_IN)

Spec == Init /\ [][Next]_vars
SpecSeq == InitSeq /\ [][Next]_vars

(***************************************************************************)
(* The passkey flows, on a database in which ada@x.com and ghost@x.com     *)
(* have signed up at time 0 and hold their sessions.                       *)
(***************************************************************************)
SignedUpIssued ==
    {[tok |-> signCodeVerificationToken(NoUser, "ada@x.com", 1, 0),
      by |-> "requestSignupOTP"],
     [tok |-> signCodeVerificationToken(NoUser, "ghost@x.com", 2, 0),
      by |-> "requestSignupOTP"],
     sessionIssue(1, 0), sessionIssue(2, 0)}

SignedUpRows ==
    LET attempt(email, code) ==
            [newAuthAttempt(email, "Ada", NoUser, code, "signup", 0) EXCEPT !.used = TRUE]
        row(id, identifier, type) ==
            newAttemptRow(id, identifier, type, "signup-otp", NoHash, 0)
    IN  /\ users = {[id |-> 1, name |-> "Ada", email |-> "ada@x.com"],
                    [id |-> 2, name |-> "Ada", email |-> "ghost@x.com"]}
        /\ userAuthAttempts = <<attempt("ada@x.com", SampleCodes[1]),
                                attempt("ghost@x.com", SampleCodes[2])>>
        /\ rateLimits = {row(1, "10.0.0.1", "ip"), row(2, "ada@x.com", "email"),
                         row(3, "10.0.0.1", "ip"), row(4, "ghost@x.com", "email")}
        /\ nextRateLimitId = 5
        /\ redeemed = <<1, 1>>
        /\ req = [p \in Procs |-> [pc |-> "idle"]]

SignedUp ==
    /\ now = 0
    /\ SignedUpRows
    /\ issued = SignedUpIssued
    /\ passkeys = {}
    /\ nextPasskeyId = 1
    /\ nextChallenge = 1

\* ... and in which both have then registered a passkey, the registration
\* tokens having expired since.
Registered ==
    /\ now = PASSKEY_CHALLENGE_TOKEN_EXPIRATION
    /\ SignedUpRows
    /\ issued = SignedUpIssued \cup
           {[tok |-> signPasskeyChallengeToken(1, 1, "ada@x.com", 0),
             by |-> "generateRegistrationOptions"],
            [tok |-> signPasskeyChallengeToken(2, 2, "ghost@x.com", 0),
             by |-> "generateRegistrationOptions"]}
    /\ passkeys = {[id |-> 1, userId |-> 1, credentialId |-> "credA", counter |-> 0],
                   [id |-> 2, userId |-> 2, credentialId |-> "credB", counter |-> 0]}
    /\ nextPasskeyId = 3
    /\ nextChallenge = 3

SessionTokens == {signSessionToken(1, 0), signSessionToken(2, 0)}
UserIds == {1, 2}

\* The tokens a client presents to the passkey flow: those that carry a
\* challenge, and a forged one.
ChallengeTokens == {token \in PresentableTokens : Has(token, "challenge")} \cup {ForgedToken}

\* Time that passes while no challenge is outstanding changes nothing the
\* passkey flow can see.
ChallengeOutstanding == \E i \in issued : Has(i.tok, "challenge") /\ i.tok.exp > now

TickPasskey == ChallengeOutstanding /\ Tick(PASSKEY_CHALLENGE_TOKEN_EXPIRATION)

InitRegistration == SignedUp /\ serial = FALSE /\ quota = RequestQuota
InitRegistrationSeq == SignedUp /\ serial = TRUE /\ quota = RequestQuota

NextRegistration ==
    \/ \E p \in Procs, session \in SessionTokens, userId \in UserIds :
          generateRegistrationOptions(p, session, userId)
    \/ \E p \in Procs, session \in SessionTokens, userId \in UserIds,
          token \in ChallengeTokens, response \in RegistrationResponses :
          verifyRegistrationResponse(p, session, userId, token, response)
    \/ \E p \in Procs : verifyRegistrationCheck(p)
    \/ \E p \in Procs : verifyRegistrationInsert(p)
    \/ \E p \in Procs, session \in SessionTokens, userId \in UserIds :
          deletePasskey(p, session, userId)
    \/ \E p \in Procs : Respond(p)
    \/ TickPasskey

\* Overlapping requests, each made by a user on their own account.
NextRegistrationOwn ==
    \/ \E p \in Procs, userId \in UserIds :
          generateRegistrationOptions(p, signSessionToken(userId, 0), userId)
    \/ \E p \in Procs, userId \in UserIds,
          token \in ChallengeTokens, response \in RegistrationResponses :
          verifyRegistrationResponse(p, signSessionToken(userId, 0), userId,
                                     token, response)
    \/ \E p \in Procs : verifyRegistrationCheck(p)
    \/ \E p \in Procs : verifyRegistrationInsert(p)
    \/ \E p \in Procs, userId \in UserIds :
          deletePasskey(p, signSessionToken(userId, 0), userId)
    \/ \E p \in Procs : Respond(p)
    \/ TickPasskey

SpecRegistration == InitRegistration /\ [][NextRegistrationOwn]_vars
SpecRegistrationSeq == InitRegistrationSeq /\ [][NextRegistration]_vars

InitPasskey == Registered /\ serial = FALSE /\ quota = RequestQuota
InitPasskeySeq == Registered /\ serial = TRUE /\ quota = RequestQuota

NextPasskey ==
    \/ \E p \in Procs, ip \in ClientIPs : initiatePasskeyDiscovery(p, ip)
    \/ \E p \in Procs, email \in Emails, ip \in ClientIPs :
          initiatePasskeyLogin(p, email, ip)
    \/ \E p \in Procs, token \in ChallengeTokens, response \in AuthResponses :
          verifyAuthenticationResponse(p, token, response)
    \/ \E p \in Procs : verifyAuthenticationLoad(p)
    \/ \E p \in Procs : verifyAuthenticationVerify(p)
    \/ \E p \in Procs : verifyAuthenticationUpdate(p)
    \/ \E p \in Procs : verifyAuthenticationFinish(p)
    \/ \E p \in Procs : Respond(p)
    \/ TickPasskey

SpecPasskey == InitPasskey /\ [][NextPasskey]_vars
SpecPasskeySeq == InitPasskeySeq /\ [][NextPasskey]_vars

(***************************************************************************)
(* RateLimiter (server/rateLimit.ts) called directly, one database         *)
(* statement at a time.                                                    *)
(***************************************************************************)
\* The (identifier, type, endpoint) triples the calls are made for.
RateLimitKeys == {<<"10.0.0.1", "ip", "signup">>,
                  <<"10.0.0.1", "ip", "login-link">>,
                  <<"ada@x.com", "email", "signup">>}

\* checkRateLimit(identifier, type, endpoint): await cleanupOldRecords(endpoint)
checkRateLimitCleanup(p, identifier, type, endpoint) ==
    /\ CanStart(p)
    /\ nextRateLimitId <= MaxRateLimitRows
    /\ rateLimits' = cleanupOldRecords(rateLimits, endpoint, now)
    /\ req' = [req EXCEPT ![p] =
           [pc |-> "rc_select", op |-> "checkRateLimit",
            in |-> [identifier |-> identifier, type |-> type, endpoint |-> endpoint],
            callTime |-> now, before |-> rateLimits]]
    /\ UNCHANGED <<now, users, userAuthAttempts, passkeyVars, nextRateLimitId,
                   issued, redeemed, serial, quota>>

\* the select of the attempts in the window, and the decision
checkRateLimitSelect(p) ==
    /\ At(p, "rc_select")
    /\ LET in == req[p].in
           found == allAttempts(rateLimits, in.identifier, in.type, in.endpoint,
                                req[p].callTime)
       IN  req' = [req EXCEPT ![p] =
               IF limitExceeded(found, in.endpoint)
               THEN Thrown(req[p].op, in, "Rate limit exceeded")
                        @@ [retryAfter |-> retryAfterOf(found, in.endpoint, req[p].callTime),
                            callTime |-> req[p].callTime, before |-> req[p].before]
               ELSE [req[p] EXCEPT !.pc = "rc_insert"]]
    /\ UNCHANGED <<now, users, userAuthAttempts, passkeyVars, rateLimits,
                   nextRateLimitId, issued, redeemed, serial, quota>>

\* the insert of the new attempt, marked failed
checkRateLimitInsert(p) ==
    /\ At(p, "rc_insert")
    /\ LET in == req[p].in IN
       /\ rateLimits' = rateLimits \cup
              {newAttemptRow(nextRateLimitId, in.identifier, in.type, in.endpoint,
                             NoHash, req[p].callTime)}
       /\ nextRateLimitId' = nextRateLimitId + 1
       /\ req' = [req EXCEPT ![p] =
              Returned(req[p].op, in, TRUE, "")
                  @@ [rowId |-> nextRateLimitId, callTime |-> req[p].callTime,
                      before |-> req[p].before]]
    /\ UNCHANGED <<now, users, userAuthAttempts, passkeyVars, issued, redeemed, serial, quota>>

\* Time passes by a third of the rate-limit window.
TickWindow ==
    LET d == RATE_LIMIT_CONFIG("signup").windowMs \div 3 IN
    /\ NoneDone
    /\ nextRateLimitId > 1
    /\ now + d <= MaxWindowTicks * d
    /\ now' = now + d
    /\ UNCHANGED <<users, userAuthAttempts, passkeyVars, rateLimits, nextRateLimitId,
                   issued, req, redeemed, serial, quota>>

NextRateLimit ==
    \/ \E p \in Procs, key \in RateLimitKeys :
          checkRateLimitCleanup(p, key[1], key[2], key[3])
    \/ \E p \in Procs : checkRateLimitSelect(p)
    \/ \E p \in Procs : checkRateLimitInsert(p)
    \/ \E p \in Procs : Respond(p)
    \/ TickWindow

SpecRateLimit == Init /\ [][NextRateLimit]_vars
SpecRateLimitSeq == InitSeq /\ [][NextRateLimit]_vars

(***************************************************************************)
(* The code requests against their rate limits: requests of two clients    *)
(* for one mailbox spelled in two ways, served one after another.          *)
(***************************************************************************)
LimitEmails == {"ada@x.com", "Ada@x.com"}
LimitIPs == {"10.0.0.1", "10.0.0.2"}

\* One request short of the limit: the client 10.0.0.1 has asked for
\* maxRequests - 1 signup codes and then maxRequests - 1 login codes for
\* ada@x.com, all at time 0.  The n-th of these requests leaves:
WarmRequests == RATE_LIMIT_CONFIG("signup-otp").maxRequests - 1

RECURSIVE RowsAfterRequests(_)
RowsAfterRequests(n) ==
    IF n = 0 THEN [rows |-> {}, nextId |-> 1]
    ELSE LET prev == RowsAfterRequests(n - 1)
             in == [email |-> "ada@x.com", ip |-> "10.0.0.1"]
             signup == n <= WarmRequests
             rl == checkIPThenEmail(prev.rows, prev.nextId, in.ip, in.email,
                       IF signup THEN "signup-otp" ELSE "login-code", NoHash, 0)
             token == signCodeVerificationToken(NoUser, in.email, n, 0)
         IN  [rows |-> IF signup
                       THEN markAttemptSuccessful(rl.rows, hashJWT(token), "signup-otp")
                       ELSE loginCodeMarks(rl.rows, token, NoUser, in, 0),
              nextId |-> rl.nextId]

NearLimit ==
    LET n == 2 * WarmRequests IN
    /\ now = 0
    /\ users = {}
    /\ userAuthAttempts =
           [i \in 1..n |->
               newAuthAttempt("ada@x.com", IF i <= WarmRequests THEN "Ada" ELSE "",
                              NoUser, SampleCodes[1],
                              IF i <= WarmRequests THEN "signup" ELSE "login", 0)]
    /\ redeemed = [i \in 1..n |-> 0]
    /\ rateLimits = RowsAfterRequests(n).rows
    /\ nextRateLimitId = RowsAfterRequests(n).nextId
    /\ issued = {[tok |-> signCodeVerificationToken(NoUser, "ada@x.com", i, 0),
                  by |-> IF i <= WarmRequests THEN "requestSignupOTP"
                                              ELSE "requestLoginCode"] : i \in 1..n}
    /\ passkeys = {}
    /\ nextPasskeyId = 1
    /\ nextChallenge = 1
    /\ req = [p \in Procs |-> [pc |-> "idle"]]

InitLimitsSeq ==
    /\ NearLimit
    /\ serial = TRUE
    /\ quota = [attempts |-> 2 * WarmRequests + MaxLimitRequests,
                rows |-> 4 * WarmRequests + 2 * MaxLimitRequests - 1]

NextLimits ==
    \/ \E p \in Procs, name \in Names, email \in LimitEmails, ip \in LimitIPs,
          code \in generateOTPCode(0) :
              requestSignupOTP(p, name, email, ip, code)
    \/ \E p \in Procs : requestSignupOTPSign(p)
    \/ \E p \in Procs, email \in LimitEmails, ip \in LimitIPs,
          code \in generateOTPCode(0) :
              requestLoginCode(p, email, ip, code)
    \/ \E p \in Procs : requestLoginCodeSign(p)
    \/ \E p \in Procs : Respond(p)
    \/ TickWindow

SpecLimitsSeq == InitLimitsSeq /\ [][NextLimits]_vars

\* The databases the passkey specifications start from are ones the signup
\* flow and the registration flow produce.
SignedUpNotReached == ~SignedUp
RegisteredNotReached == ~Registered

(***************************************************************************)
(* Properties.                                                             *)
(***************************************************************************)
Done(p, op) == req[p].pc = "done" /\ req[p].op = op

IssuedBy(token) == {i.by : i \in {j \in issued : j.tok = token}}

LoginCallWithCorrectCode(p) ==
    /\ Done(p, "verifyLoginCodeAndAuthenticate")
    /\ "requestLoginCode" \in IssuedBy(req[p].in.token)
    /\ Has(req[p].in.token, "userId")
    /\ req[p].in.code \in GeneratedCodes
    /\ userAuthAttempts[req[p].in.token.userAuthAttemptId].codeHash
           = <<"sha256", req[p].in.code>>
    /\ now < userAuthAttempts[req[p].in.token.userAuthAttemptId].expiresAt

VerifyOps == {"verifyLoginCodeAndAuthenticate", "verifySignupOTPAndCreateUser"}

StoredCounter(id) == (CHOOSE k \in passkeys : k.id = id).counter

\* C5: when the WebAuthn library reports verified with a new counter less than
\* or equal to the stored counter of the credential, the authentication fails
\* with the cloned-credential error, no session is issued and the stored
\* counter is left unchanged.
C5_ClonedCounterRejected ==
    [][\A p \in Procs :
          (/\ req[p].pc = "pa_verify"
           /\ req'[p] # req[p]
           /\ \E k \in passkeys : k.id = req[p].passkey.id
           /\ swaVerifyAuthenticationResponse(req[p].in.response,
                  req[p].expectedChallenge, req[p].passkey).verified
           /\ req[p].in.response.counter <= StoredCounter(req[p].passkey.id))
          => /\ req'[p].pc = "done"
             /\ ~req'[p].success
             /\ req'[p].error = ClonedError
             /\ issued' = issued
             /\ passkeys' = passkeys]_vars

\* C6: the stored counter of a passkey never decreases, under every
\* interleaving of authentication requests on the credential.
C6_CounterNeverDecreases ==
    [][\A k \in passkeys : \A q \in passkeys' :
          q.id = k.id => q.counter >= k.counter]_vars

NoAccountAttempts ==
    {a \in DOMAIN userAuthAttempts :
        userAuthAttempts[a].purpose = "login" /\ userAuthAttempts[a].userId = NoUser}

InWindowBefore(r) ==
    {row \in r.before :
        /\ row.identifier = r.in.identifier
        /\ row.type = r.in.type
        /\ row.endpoint = r.in.endpoint
        /\ row.windowStart >= r.callTime - RATE_LIMIT_CONFIG(r.in.endpoint).windowMs}

\* C10: of the checkRateLimit calls made one after another for an
\* (identifier, type, endpoint), a call that finds fewer than maxRequests rows
\* in the window is admitted and inserts exactly one row, and a call that
\* finds maxRequests rows is rejected with the rate-limit error and inserts
\* none; no window ever holds more than maxRequests rows.
C10_AdmitsExactlyMaxRequests ==
    \A p \in Procs :
        Done(p, "checkRateLimit") =>
            LET r == req[p]
                max == RATE_LIMIT_CONFIG(r.in.endpoint).maxRequests
            IN  /\ Cardinality(InWindowBefore(r)) <= max
                /\ IF Cardinality(InWindowBefore(r)) < max
                   THEN /\ r.success
                        /\ \E row \in rateLimits \ r.before :
                              /\ rateLimits \ r.before = {row}
                              /\ row.id = r.rowId
                              /\ row.identifier = r.in.identifier
                              /\ row.type = r.in.type
                              /\ row.endpoint = r.in.endpoint
                              /\ row.windowStart = r.callTime
                   ELSE /\ r.thrown
                        /\ r.error = "Rate limit exceeded"
                        /\ rateLimits \subseteq r.before

C10_CallAfterMaxRequestsRejected ==
    \E p \in Procs :
        /\ Done(p, "checkRateLimit")
        /\ req[p].thrown
        /\ Cardinality(InWindowBefore(req[p]))
               = RATE_LIMIT_CONFIG(req[p].in.endpoint).maxRequests

\* C11: whenever checkRateLimit rejects a call, the retryAfter it reports is
\* strictly positive, whatever the age of the oldest row in the window, a row
\* whose windowStart is exactly now minus the window length included.
C11_RetryAfterPositive ==
    \A p \in Procs :
        (Done(p, "checkRateLimit") /\ req[p].thrown) => req[p].retryAfter > 0

CodeRequestOps == {"requestSignupOTP", "requestLoginCode"}

\* the spellings of each mailbox
Mailboxes == {{"ada@x.com", "Ada@x.com"}, {"ghost@x.com"}}
SameMailbox(a, b) == \E m \in Mailboxes : a \in m /\ b \in m

\* the rows in the window of the per-IP counter and of the per-mailbox counter
\* of an endpoint
IPCounter(ip, endpoint) ==
    {r \in rateLimits :
        /\ r.type = "ip" /\ r.identifier = ip /\ r.endpoint = endpoint
        /\ r.windowStart >= now - RATE_LIMIT_CONFIG(endpoint).windowMs}

EmailCounter(email, endpoint) ==
    {r \in rateLimits :
        /\ r.type = "email" /\ SameMailbox(r.identifier, email)
        /\ r.endpoint = endpoint
        /\ r.windowStart >= now - RATE_LIMIT_CONFIG(endpoint).windowMs}

RegistrationOps == {"generateRegistrationOptions", "verifyRegistrationResponse"}

HasPasskey(userId) == \E k \in passkeys : k.userId = userId

SignupRedeemable(r) ==
    /\ Has(r.in.token, "userAuthAttemptId")
    /\ r.in.token.userAuthAttemptId \in DOMAIN userAuthAttempts
    /\ LET a == userAuthAttempts[r.in.token.userAuthAttemptId] IN
       /\ a.purpose = "signup"
       /\ ~a.used
       /\ ~(a.expiresAt < now)
       /\ Has(r.in.token, "email") /\ r.in.token.email = a.email
       /\ a.codeHash = <<"sha256", r.in.code>>
       /\ a.name # ""
       /\ \A u \in users : u.email # a.email

C19_OneErrorForEveryFailure ==
    \A p \in Procs :
        (/\ req[p].pc = "done"
         /\ req[p].op \in VerifyOps
         /\ ~req[p].thrown
         /\ ~req[p].success)
            => req[p].error = GenericError

(***************************************************************************)
(* TokenService (server/jwt.ts) called directly: the five sign functions   *)
(* hand out tokens, and every verify function is applied to every token    *)
(* handed out, whatever its kind, and to a forged one.                     *)
(***************************************************************************)
\* The sign function of the kind each verify function is meant for.
SignerOf ==
    [verifySignupToken |-> "signSignupToken",
     verifyCodeVerificationToken |-> "signCodeVerificationToken",
     verifyPasskeyChallengeToken |-> "signPasskeyChallengeToken",
     verifyPasskeyDiscoveryToken |-> "signPasskeyDiscoveryToken",
     verifySessionToken |-> "signSessionToken"]

TokenUserIds == {1}
TokenChallenges == {1}
TokenAttemptIds == {1}

\* new SignJWT(payload)...sign(secret): the token is handed to the caller
signed(by, token) ==
    /\ NoneDone
    /\ Cardinality(issued) < MaxTokens
    /\ [tok |-> token, by |-> by] \notin issued
    /\ issued' = issued \cup {[tok |-> token, by |-> by]}
    /\ UNCHANGED <<now, users, userAuthAttempts, passkeyVars, rateLimits,
                   nextRateLimitId, req, redeemed, serial, quota>>

signSignupTokenCall(name, email) ==
    signed("signSignupToken", signSignupToken(name, email, now))

signCodeVerificationTokenCall(userId, email, userAuthAttemptId) ==
    signed("signCodeVerificationToken",
           signCodeVerificationToken(userId, email, userAuthAttemptId, now))

signPasskeyChallengeTokenCall(challenge, userId, email) ==
    signed("signPasskeyChallengeToken",
           signPasskeyChallengeToken(challenge, userId, email, now))

signPasskeyDiscoveryTokenCall(challenge) ==
    signed("signPasskeyDiscoveryToken", signPasskeyDiscoveryToken(challenge, now))

signSessionTokenCall(userId) ==
    signed("signSessionToken", signSessionToken(userId, now))

\* A verify function returns the payload, or throws
\* `Token verification failed: ${error.message}`.
verified(p, op, token, result) ==
    /\ CanStart(p)
    /\ req' = [req EXCEPT ![p] =
           IF result.ok THEN Returned(op, [token |-> token], TRUE, "")
           ELSE Thrown(op, [token |-> token],
                       "Token verification failed: " \o result.error)]
    /\ UNCHANGED <<now, users, userAuthAttempts, passkeyVars, rateLimits,
                   nextRateLimitId, issued, redeemed, serial, quota>>

verifySignupTokenCall(p, token) ==
    verified(p, "verifySignupToken", token, verifySignupToken(token, now))

verifyCodeVerificationTokenCall(p, token) ==
    verified(p, "verifyCodeVerificationToken", token,
             verifyCodeVerificationToken(token, now))

verifyPasskeyChallengeTokenCall(p, token) ==
    verified(p, "verifyPasskeyChallengeToken", token,
             verifyPasskeyChallengeToken(token, now))

verifyPasskeyDiscoveryTokenCall(p, token) ==
    verified(p, "verifyPasskeyDiscoveryToken", token,
             verifyPasskeyDiscoveryToken(token, now))

verifySessionTokenCall(p, token) ==
    verified(p, "verifySessionToken", token, verifySessionToken(token, now))

\* The clock readings at which the calls are made: the first ticks, and the
\* first tick after the end of each of the longer lifetimes.
TokenTimes ==
    (0 .. MaxTicks)
        \cup {CODE_VERIFICATION_TOKEN_EXPIRATION + 1, SIGNUP_TOKEN_EXPIRATION + 1,
              SESSION_TOKEN_EXPIRATION + 1}

\* Math.floor(Date.now() / 1000) moves on between the calls.
TickTokens ==
    /\ NoneDone
    /\ issued # {}
    /\ \E t \in TokenTimes : t > now /\ now' = t
    /\ UNCHANGED <<users, userAuthAttempts, passkeyVars, rateLimits, nextRateLimitId,
                   issued, req, redeemed, serial, quota>>

InitTokensSeq == InitTables /\ serial = TRUE /\ quota = RequestQuota

NextTokens ==
    \/ \E name \in Names, email \in Emails : signSignupTokenCall(name, email)
    \/ \E userId \in TokenUserIds \cup {NoUser}, email \in Emails,
          id \in TokenAttemptIds :
          signCodeVerificationTokenCall(userId, email, id)
    \/ \E challenge \in TokenChallenges, userId \in TokenUserIds, email \in Emails :
          signPasskeyChallengeTokenCall(challenge, userId, email)
    \/ \E challenge \in TokenChallenges : signPasskeyDiscoveryTokenCall(challenge)
    \/ \E userId \in TokenUserIds : signSessionTokenCall(userId)
    \/ \E p \in Procs, token \in SignedTokens \cup {ForgedToken} :
          verifySignupTokenCall(p, token)
    \/ \E p \in Procs, token \in SignedTokens \cup {ForgedToken} :
          verifyCodeVerificationTokenCall(p, token)
    \/ \E p \in Procs, token \in SignedTokens \cup {ForgedToken} :
          verifyPasskeyChallengeTokenCall(p, token)
    \/ \E p \in Procs, token \in SignedTokens \cup {ForgedToken} :
          verifyPasskeyDiscoveryTokenCall(p, token)
    \/ \E p \in Procs, token \in SignedTokens \cup {ForgedToken} :
          verifySessionTokenCall(p, token)
    \/ \E p \in Procs : Respond(p)
    \/ TickTokens

SpecTokensSeq == InitTokensSeq /\ [][NextTokens]_vars

\* C20: token kinds are not interchangeable: a verify function accepts a token
\* only if the token was issued by the sign function of its own kind, and
\* rejects every token issued as one of the other four kinds.
C20_VerifyRejectsOtherKinds ==
    \A p \in Procs :
        (/\ req[p].pc = "done"
         /\ req[p].op \in DOMAIN SignerOf
         /\ req[p].success)
            => IssuedBy(req[p].in.token) = {SignerOf[req[p].op]}

\* The lifetimes of the specification, in units of five minutes: 24 hours for
\* signup, 15 minutes for code verification, 10 minutes for the passkey
\* challenge and discovery tokens, 30 days for the session.
PolicyTTL ==
    [signSignupToken |-> (24 * 60) \div 5,
     signCodeVerificationToken |-> 15 \div 5,
     signPasskeyChallengeToken |-> 10 \div 5,
     signPasskeyDiscoveryToken |-> 10 \div 5,
     signSessionToken |-> (30 * 24 * 60) \div 5]

\* C21: every token issued at time t carries exp = t + TTL of its kind (24 h
\* signup, 15 min code verification, 10 min passkey challenge and discovery,
\* 30 days session), and the verify functions reject a token at every time
\* later than its exp.
C21_LifetimeOfEveryKind ==
    /\ [][\A i \in issued' \ issued :
             /\ i.tok.iat = now
             /\ i.tok.exp = now + PolicyTTL[i.by]]_vars
    /\ [](\A p \in Procs :
             (/\ req[p].pc = "done"
              /\ req[p].op \in DOMAIN SignerOf
              /\ Has(req[p].in.token, "exp")
              /\ now > req[p].in.token.exp)
                 => ~req[p].success)

\* Each kind's own verify function has refused a token of its kind, presented
\* later than its exp; here the session token, 30 days and 5 minutes after
\* its issue.
C21_ExpiredSessionRefused ==
    \E p \in Procs :
        /\ Done(p, "verifySessionToken")
        /\ IssuedBy(req[p].in.token) = {"signSessionToken"}
        /\ req[p].in.token.iat = 0
        /\ now > req[p].in.token.exp
        /\ ~req[p].success

(***************************************************************************)
(* verifyCodeVerificationToken as a function of its argument: it is given  *)
(* tokens signed with JWT_SECRET whose payload holds any combination of    *)
(* the claims it looks at, next to the tokens signCodeVerificationToken    *)
(* hands out.                                                              *)
(***************************************************************************)
\* The claim sets made of the claims verifyCodeVerificationToken reads.
SubjectPayloads ==
    LET base == [iat |-> 0, exp |-> CODE_VERIFICATION_TOKEN_EXPIRATION]
        withId == {base, base @@ [userAuthAttemptId |-> 1]}
        withUser == withId \cup {q @@ [userId |-> 1] : q \in withId}
    IN  withUser \cup {q @@ [email |-> "ada@x.com"] : q \in withUser}

InitCodeTokensSeq ==
    /\ now = 0
    /\ users = {}
    /\ userAuthAttempts = <<>>
    /\ passkeys = {}
    /\ nextPasskeyId = 1
    /\ nextChallenge = 1
    /\ rateLimits = {}
    /\ nextRateLimitId = 1
    /\ \E q \in SubjectPayloads : issued = {[tok |-> q, by |-> "JWT_SECRET"]}
    /\ req = [p \in Procs |-> [pc |-> "idle"]]
    /\ redeemed = <<>>
    /\ serial = TRUE
    /\ quota = RequestQuota

NextCodeTokens ==
    \/ \E userId \in TokenUserIds \cup {NoUser}, email \in Emails,
          id \in TokenAttemptIds :
          signCodeVerificationTokenCall(userId, email, id)
    \/ \E p \in Procs, token \in SignedTokens \cup {ForgedToken} :
          verifyCodeVerificationTokenCall(p, token)
    \/ \E p \in Procs : Respond(p)
    \/ TickTokens

SpecCodeTokensSeq == InitCodeTokensSeq /\ [][NextCodeTokens]_vars

\* C22: every token signCodeVerificationToken issues has exactly one of userId
\* and email set (userId when it is non-null, otherwise email), and
\* verifyCodeVerificationToken rejects every token whose payload has both of
\* them or neither.
C22_ExactlyOneSubject ==
    /\ \A userId \in TokenUserIds \cup {NoUser}, email \in Emails :
          LET token == signCodeVerificationToken(userId, email, 1, now) IN
          IF userId # NoUser
          THEN Has(token, "userId") /\ token.userId = userId /\ ~Has(token, "email")
          ELSE Has(token, "email") /\ token.email = email /\ ~Has(token, "userId")
    /\ \A i \in issued :
          i.by = "signCodeVerificationToken"
             => (Has(i.tok, "userId") # Has(i.tok, "email"))
    /\ \A p \in Procs :
          (Done(p, "verifyCodeVerificationToken") /\ req[p].success)
             => (Has(req[p].in.token, "userId") # Has(req[p].in.token, "email"))

\* A token signed with the secret that names an AuthAttempt and carries both
\* a userId and an email was presented before its exp and was rejected.
C22_BothSubjectsRejected ==
    \E p \in Procs :
        /\ Done(p, "verifyCodeVerificationToken")
        /\ req[p].in.token \in SignedTokens
        /\ Has(req[p].in.token, "userAuthAttemptId")
        /\ Has(req[p].in.token, "userId") /\ Has(req[p].in.token, "email")
        /\ now < req[p].in.token.exp
        /\ ~req[p].success

(***************************************************************************)
(* SessionManager (lib/auth.ts) over the whole lifetime of a session:      *)
(* sessions are issued, the cookie is resolved and cleared, and the clock  *)
(* passes the end of the 30 days.                                          *)
(***************************************************************************)
\* setAuthCookie(userId)
setAuthCookie(userId) ==
    /\ NoneDone
    /\ Cardinality(issued) < MaxTokens
    /\ sessionIssue(userId, now) \notin issued
    /\ issued' = issued \cup {sessionIssue(userId, now)}
    /\ UNCHANGED <<now, users, userAuthAttempts, passkeyVars, rateLimits,
                   nextRateLimitId, req, redeemed, serial, quota>>

InitSessionSeq == InitTables /\ serial = TRUE /\ quota = RequestQuota

NextSession ==
    \/ \E userId \in UserIds : setAuthCookie(userId)
    \/ \E challenge \in TokenChallenges : signPasskeyDiscoveryTokenCall(challenge)
    \/ \E p \in Procs, token \in PresentableTokens \cup {NoToken} :
          getAuthCookie(p, token)
    \/ \E p \in Procs : logout(p)
    \/ \E p \in Procs : Respond(p)
    \/ TickTokens

SpecSessionSeq == InitSessionSeq /\ [][NextSession]_vars

\* The causes for which a cookie does not resolve: no cookie, a signature not
\* made by the server, an exp that has passed, a payload without userId.
SessionFailure(token, t) ==
    \/ token = NoToken
    \/ token \notin SignedTokens
    \/ token.exp <= t
    \/ ~Has(token, "userId")

\* C23: session resolution never raises an error, and for every failure cause
\* (missing cookie, bad signature, expired token, token of the wrong shape) it
\* returns one and the same outcome, undefined.
C23_OneUnauthenticatedOutcome ==
    \A p \in Procs :
        Done(p, "getAuthCookie")
            => /\ ~req[p].thrown
               /\ SessionFailure(req[p].in.token, now)
                     => [req[p] EXCEPT !.in = NoToken]
                           = Returned("getAuthCookie", NoToken, FALSE, "")
                                 @@ [userId |-> NoUser]

\* A session token the server issued is presented after its 30 days.
C23_ExpiredSessionUnauthenticated ==
    \E p \in Procs :
        /\ Done(p, "getAuthCookie")
        /\ IssuedBy(req[p].in.token) = {"setAuthCookie"}
        /\ req[p].in.token.exp <= now
        /\ req[p].userId = NoUser

\* C24: logout changes no server-side state and revokes nothing: after it, as
\* before, every session token the server issued resolves to its userId at
\* every time before its exp.
C24_LogoutRevokesNothing ==
    /\ [][(\E p \in Procs : ~Done(p, "logout") /\ Done(p, "logout")')
             => UNCHANGED <<now, users, userAuthAttempts, passkeyVars, rateLimits,
                            nextRateLimitId, issued>>]_vars
    /\ [][\A i \in issued :
             (i.by = "setAuthCookie" /\ now' < i.tok.exp)
                => getAuthCookieResult(i.tok, now)' = i.tok.userId]_vars
    /\ [](\A p \in Procs :
             (/\ Done(p, "getAuthCookie")
              /\ "setAuthCookie" \in IssuedBy(req[p].in.token)
              /\ now < req[p].in.token.exp)
                 => req[p].userId = req[p].in.token.userId)

\* The cookie has just been cleared by logout, and the session token it held
\* still resolves.
C24_SessionOutlivesLogout ==
    \E p \in Procs :
        /\ Done(p, "logout")
        /\ now > 0
        /\ \E i \in issued :
              /\ i.by = "setAuthCookie"
              /\ i.tok.iat = 0
              /\ getAuthCookieResult(i.tok, now) = i.tok.userId

(***************************************************************************)
(* Signup requests for a registered e-mail, near the rate limit: ada has   *)
(* signed up with her first request from 10.0.0.1 and has then asked for a *)
(* signup code again until one request is left within the limit, all at    *)
(* time 0.                                                                 *)
(***************************************************************************)
RegisteredNearLimit ==
    /\ now = 0
    /\ users = {[id |-> 1, name |-> "Ada", email |-> "ada@x.com"]}
    /\ userAuthAttempts =
           <<[newAuthAttempt("ada@x.com", "Ada", NoUser, SampleCodes[1], "signup", 0)
                 EXCEPT !.used = TRUE]>>
    /\ redeemed = <<1>>
    /\ rateLimits = RowsAfterRequests(WarmRequests).rows
    /\ nextRateLimitId = RowsAfterRequests(WarmRequests).nextId
    /\ issued = {[tok |-> signCodeVerificationToken(NoUser, "ada@x.com", 1, 0),
                  by |-> "requestSignupOTP"],
                 sessionIssue(1, 0)}
    /\ passkeys = {}
    /\ nextPasskeyId = 1
    /\ nextChallenge = 1
    /\ req = [p \in Procs |-> [pc |-> "idle"]]

InitSignupLimitsSeq ==
    /\ RegisteredNearLimit
    /\ serial = TRUE
    /\ quota = [attempts |-> 1 + MaxLimitRequests,
                rows |-> 2 * WarmRequests + 2 * MaxLimitRequests - 1]

NextSignupLimits ==
    \/ \E p \in Procs, name \in Names, email \in Emails, ip \in LimitIPs,
          code \in generateOTPCode(1) :
              requestSignupOTP(p, name, email, ip, code)
    \/ \E p \in Procs : requestSignupOTPSign(p)
    \/ \E p \in Procs : Respond(p)
    \/ TickWindow

SpecSignupLimitsSeq == InitSignupLimitsSeq /\ [][NextSignupLimits]_vars

RegisteredNearLimitNotReached == ~RegisteredNearLimit

\* A requestSignupOTP call for an e-mail that belongs to a User is made in
\* this step.
SignupForRegistered(p) ==
    /\ req[p].pc = "idle" /\ req'[p].pc # "idle"
    /\ req'[p].op = "requestSignupOTP"
    /\ \E u \in users : u.email = req'[p].in.email

SignupRefused(p) ==
    /\ req'[p].pc = "done"
    /\ req'[p].thrown /\ ~req'[p].success
    /\ ~Has(req'[p], "token")
    /\ UNCHANGED <<users, userAuthAttempts, issued>>

\* The request has inserted its two rate-limit rows: it passed both limits.
SignupAdmitted == nextRateLimitId' = nextRateLimitId + 2

AtAttemptCheck(p) ==
    /\ req[p].pc \in {"vl_load", "vs_load"}
    /\ req'[p] # req[p]
    /\ req[p].in.token.userAuthAttemptId \in DOMAIN userAuthAttempts

\* The row as the checks of request p find it: pending, unexpired, of the
\* purpose of the operation, made for the subject of the token.
AttemptRedeemableBy(p) ==
    LET a == userAuthAttempts[req[p].in.token.userAuthAttemptId]
        token == req[p].in.token
    IN  /\ ~a.used
        /\ ~(a.expiresAt < now)
        /\ a.purpose = IF req[p].pc = "vl_load" THEN "login" ELSE "signup"
        /\ Has(token, "email") => a.email = token.email
        /\ Has(token, "userId") => a.userId = token.userId
        /\ req[p].pc = "vs_load" => Has(token, "email")
        /\ req[p].pc = "vl_load" => a.userId # NoUser

CodeOfAttempt(p) ==
    userAuthAttempts[req[p].in.token.userAuthAttemptId].codeHash
        = <<"sha256", toUpperCase(req[p].in.code)>>

\* A verify call has returned that was made, before the expiry of its
\* AuthAttempt, with a valid token of the attempt and the code of the attempt.
CorrectCodeCallDone(p) ==
    /\ req[p].pc = "done"
    /\ req[p].op \in VerifyOps
    /\ req[p].in.code \in GeneratedCodes
    /\ verifyCodeVerificationToken(req[p].in.token, now).ok
    /\ req[p].in.token.userAuthAttemptId \in DOMAIN userAuthAttempts
    /\ LET a == userAuthAttempts[req[p].in.token.userAuthAttemptId]
           token == req[p].in.token
       IN  /\ a.codeHash = <<"sha256", req[p].in.code>>
           /\ ~(a.expiresAt < now)
           /\ IF req[p].op = "verifyLoginCodeAndAuthenticate"
              THEN /\ a.purpose = "login"
                   /\ Has(token, "userId") /\ a.userId = token.userId
              ELSE /\ a.purpose = "signup"
                   /\ Has(token, "email") /\ a.email = token.email

PurposeOf ==
    [verifyLoginCodeAndAuthenticate |-> "login",
     verifySignupOTPAndCreateUser |-> "signup"]

InitLoginSeq ==
    /\ SignedUp
    /\ serial = TRUE
    /\ quota = [attempts |-> Len(userAuthAttempts) + MaxAttempts,
                rows |-> nextRateLimitId - 1 + MaxRequestRows]

NextLogin ==
    \/ \E p \in Procs, email \in Emails, ip \in ClientIPs,
          code \in generateOTPCode(Len(userAuthAttempts)) :
              requestLoginCode(p, email, ip, code)
    \/ \E p \in Procs : requestLoginCodeSign(p)
    \/ \E p \in Procs, token \in CodeTokens, code \in SubmittedCodes :
          verifyLoginCodeAndAuthenticate(p, token, code)
    \/ \E p \in Procs : verifyLoginLoad(p)
    \/ \E p \in Procs : verifyLoginUser(p)
    \/ \E p \in Procs : verifyLoginMarkUsed(p)
    \/ \E p \in Procs : verifyLoginFinish(p)
    \/ \E p \in Procs : Respond(p)
    \/ Tick(OTP_EXPIRES_IN)

SpecLoginSeq == InitLoginSeq /\ [][NextLogin]_vars

C30_TargetedTokenOnlyForItsUser ==
    \A p \in Procs :
        (/\ Done(p, "verifyAuthenticationResponse")
         /\ req[p].success
         /\ Has(req[p].in.token, "userId"))
            => /\ req[p].userId = req[p].in.token.userId
               /\ req[p].passkey.userId = req[p].in.token.userId

\* The admission rows of a challenge token (the rows the initiation stored
\* under the hash of the token) that a successful authentication has marked.
MarkedRowsOf(token) ==
    {r \in rateLimits : /\ r.endpoint = "passkey-attempt"
                        /\ r.jwtHash = hashJWT(token)
                        /\ r.status = "success"}

\* C31: a passkey challenge token is single-use: of the calls of
\* verifyAuthenticationResponse that present one token returned by
\* initiatePasskeyLogin or initiatePasskeyDiscovery, at most one succeeds,
\* whatever responses are submitted with it while it is valid.  A call that
\* succeeds marks the admission rows of its token, so no call succeeds on a
\* token whose rows an earlier call has marked.
C31_ChallengeTokenSingleUse ==
    [][\A p \in Procs :
          (/\ req[p].pc = "pa_finish"
           /\ req'[p].pc = "done"
           /\ req'[p].success)
          => MarkedRowsOf(req[p].in.token) = {}]_vars

\* A verifySignupOTPAndCreateUser request that has marked attempt a used and
\* has not returned yet.
RedeemingSignup(a) ==
    \E p \in Procs : /\ req[p].pc \in {"vs_insert", "vs_finish"}
                     /\ req[p].attemptId = a

MarkKeys == {<<"10.0.0.1", "ip", "signup">>, <<"ada@x.com", "email", "signup">>}
MarkHashes == {NoHash, hashJWT(signSignupToken("Ada", "ada@x.com", 0))}

\* checkRateLimit(identifier, type, endpoint, jwtHash), served alone
checkRateLimitCall(p, identifier, type, endpoint, jwtHash) ==
    /\ Alone(p)
    /\ nextRateLimitId <= MaxRateLimitRows
    /\ LET in == [identifier |-> identifier, type |-> type, endpoint |-> endpoint,
                  jwtHash |-> jwtHash]
           rl == checkRateLimit(rateLimits, nextRateLimitId, identifier, type,
                                endpoint, jwtHash, now)
       IN  /\ rateLimits' = rl.rows
           /\ nextRateLimitId' = rl.nextId
           /\ req' = [req EXCEPT ![p] =
                  IF rl.ok THEN Returned("checkRateLimit", in, TRUE, "")
                  ELSE Thrown("checkRateLimit", in, "Rate limit exceeded")]
    /\ UNCHANGED <<now, users, userAuthAttempts, passkeyVars, issued, redeemed,
                   serial, quota>>

\* markAttemptSuccessful(jwtHash, endpoint)
markAttemptSuccessfulCall(p, jwtHash, endpoint) ==
    /\ Alone(p)
    /\ rateLimits # {}
    /\ rateLimits' = markAttemptSuccessful(rateLimits, jwtHash, endpoint)
    /\ req' = [req EXCEPT ![p] =
           Returned("markAttemptSuccessful",
                    [jwtHash |-> jwtHash, endpoint |-> endpoint], TRUE, "")]
    /\ UNCHANGED <<now, users, userAuthAttempts, passkeyVars, nextRateLimitId,
                   issued, redeemed, serial, quota>>

\* markLatestAttemptSuccessful(identifier, type, endpoint)
markLatestAttemptSuccessfulCall(p, identifier, type, endpoint) ==
    /\ Alone(p)
    /\ rateLimits # {}
    /\ rateLimits' = markLatestAttemptSuccessful(rateLimits, identifier, type,
                                                 endpoint, now)
    /\ req' = [req EXCEPT ![p] =
           Returned("markLatestAttemptSuccessful",
                    [identifier |-> identifier, type |-> type,
                     endpoint |-> endpoint], TRUE, "")]
    /\ UNCHANGED <<now, users, userAuthAttempts, passkeyVars, nextRateLimitId,
                   issued, redeemed, serial, quota>>

NextMarks ==
    \/ \E p \in Procs, key \in MarkKeys, jwtHash \in MarkHashes :
          checkRateLimitCall(p, key[1], key[2], key[3], jwtHash)
    \/ \E p \in Procs, key \in MarkKeys, jwtHash \in MarkHashes \ {NoHash} :
          markAttemptSuccessfulCall(p, jwtHash, key[3])
    \/ \E p \in Procs, key \in MarkKeys :
          markLatestAttemptSuccessfulCall(p, key[1], key[2], key[3])
    \/ \E p \in Procs : Respond(p)
    \/ TickWindow

\* The client 10.0.0.1 has made maxRequests - 1 admitted signup calls at
\* time 0: the n-th of these checkRateLimit calls leaves
RECURSIVE RowsAfterChecks(_)
RowsAfterChecks(n) ==
    IF n = 0 THEN [rows |-> {}, nextId |-> 1]
    ELSE LET prev == RowsAfterChecks(n - 1) IN
         checkRateLimit(prev.rows, prev.nextId, "10.0.0.1", "ip", "signup",
                        NoHash, 0)

InitMarksSeq ==
    /\ now = 0
    /\ users = {}
    /\ userAuthAttempts = <<>>
    /\ passkeys = {}
    /\ nextPasskeyId = 1
    /\ nextChallenge = 1
    /\ rateLimits = RowsAfterChecks(WarmRequests).rows
    /\ nextRateLimitId = RowsAfterChecks(WarmRequests).nextId
    /\ issued = {}
    /\ req = [p \in Procs |-> [pc |-> "idle"]]
    /\ redeemed = <<>>
    /\ serial = TRUE
    /\ quota = RequestQuota

SpecMarksSeq == InitMarksSeq /\ [][NextMarks]_vars

MarkOps == {"markAttemptSuccessful", "markLatestAttemptSuccessful"}

\* a row without its status
Unmarked(r) == [r EXCEPT !.status = "failed"]

\* C34: markAttemptSuccessful and markLatestAttemptSuccessful change only the
\* status field of rows that exist and never the admission decision: for
\* every (identifier, type, endpoint), checkRateLimit admits after a mark
\* operation if and only if it would have admitted before it, the rows of
\* status failed and success being counted alike.
C34_MarksKeepTheDecision ==
    [][(\E p \in Procs : req[p].pc = "idle" /\ req'[p].pc = "done"
                            /\ req'[p].op \in MarkOps)
       => /\ {Unmarked(r) : r \in rateLimits'} = {Unmarked(r) : r \in rateLimits}
          /\ {r.id : r \in rateLimits'} = {r.id : r \in rateLimits}
          /\ Cardinality(rateLimits') = Cardinality(rateLimits)
          /\ nextRateLimitId' = nextRateLimitId
          /\ \A key \in MarkKeys :
                checkRateLimit(rateLimits', nextRateLimitId', key[1], key[2],
                               key[3], NoHash, now).ok
                = checkRateLimit(rateLimits, nextRateLimitId, key[1], key[2],
                                 key[3], NoHash, now).ok]_vars

\* a mark operation has returned, and a key whose window holds marked rows is
\* at its limit
C34_MarkedRowsStillCounted ==
    \E p \in Procs, key \in MarkKeys :
        /\ req[p].pc = "done"
        /\ req[p].op \in MarkOps
        /\ ~checkRateLimit(rateLimits, nextRateLimitId, key[1], key[2], key[3],
                           NoHash, now).ok
        /\ \E r \in rateLimits : /\ r.identifier = key[1] /\ r.type = key[2]
                                 /\ r.endpoint = key[3] /\ r.status = "success"
                                 /\ r.windowStart >= now - RATE_LIMIT_CONFIG(key[3]).windowMs

(***************************************************************************)
(* Overlapping checkRateLimit calls of one client that is one call short   *)
(* of its limit, one database statement at a time.                         *)
(***************************************************************************)
OvershootKey == <<"10.0.0.1", "ip", "signup">>

InitOvershoot ==
    /\ now = 0
    /\ users = {}
    /\ userAuthAttempts = <<>>
    /\ passkeys = {}
    /\ nextPasskeyId = 1
    /\ nextChallenge = 1
    /\ rateLimits = RowsAfterChecks(WarmRequests).rows
    /\ nextRateLimitId = RowsAfterChecks(WarmRequests).nextId
    /\ issued = {}
    /\ req = [p \in Procs |-> [pc |-> "idle"]]
    /\ redeemed = <<>>
    /\ serial = FALSE
    /\ quota = RequestQuota

NextOvershoot ==
    \/ \E p \in Procs :
          checkRateLimitCleanup(p, OvershootKey[1], OvershootKey[2], OvershootKey[3])
    \/ \E p \in Procs : checkRateLimitSelect(p)
    \/ \E p \in Procs : checkRateLimitInsert(p)
    \/ \E p \in Procs : Respond(p)
    \/ TickWindow

SpecOvershoot == InitOvershoot /\ [][NextOvershoot]_vars

\* the rows of the key that are not older than the window that ends at t
RowsInWindow(key, t) ==
    {r \in rateLimits : /\ r.identifier = key[1] /\ r.type = key[2]
                        /\ r.endpoint = key[3]
                        /\ r.windowStart >= t - RATE_LIMIT_CONFIG(key[3]).windowMs}

\* C35: checkRateLimit counts the rows and then inserts without a
\* transactional guard, so the limit is soft under concurrency: a call is
\* admitted exactly on the count it has read, and calls that overlap are
\* admitted together, which puts more than maxRequests rows in one window;
\* the excess stays below the number of calls in flight at once.
C35_LimitSoftUnderConcurrency ==
    /\ [][\A p \in Procs :
            (req[p].pc = "rc_select" /\ req'[p] # req[p])
            => (req'[p].pc = "rc_insert"
                <=> Cardinality(RowsInWindow(OvershootKey, req[p].callTime))
                        < RATE_LIMIT_CONFIG(OvershootKey[3]).maxRequests)]_vars
    /\ [](Cardinality(RowsInWindow(OvershootKey, now))
             < RATE_LIMIT_CONFIG(OvershootKey[3]).maxRequests + Cardinality(Procs))

\* more than maxRequests calls of the client have been admitted in one window
C35_MoreThanMaxRequestsAdmitted ==
    Cardinality(RowsInWindow(OvershootKey, now))
        > RATE_LIMIT_CONFIG(OvershootKey[3]).maxRequests

\* C36: when verifyAuthenticationResponse succeeds, the stored counter of the
\* credential equals the new counter the WebAuthn library reported, a session
\* is issued for the user who owns that credential (the response sets the
\* session cookie of that user), and the passkey-attempt rate-limit rows whose
\* jwtHash is the hash of the presented token have status success; the row of
\* no other credential is modified.
C36_SuccessfulPasskeyAuthEffects ==
    /\ [][\A p \in Procs :
            (req[p].pc \in {"pa_load", "pa_verify", "pa_update", "pa_finish"}
             /\ req'[p] # req[p])
            => \A k \in passkeys :
                  (req[p].pc = "pa_update" /\ k.id = req[p].passkey.id)
                  \/ k \in passkeys']_vars
    /\ [](\A p \in Procs :
            (Done(p, "verifyAuthenticationResponse") /\ req[p].success)
            => /\ StoredCounter(req[p].passkey.id) = req[p].in.response.counter
               /\ req[p].passkey.credentialId = req[p].in.response.id
               /\ req[p].session # NoToken
               /\ req[p].session.userId = req[p].passkey.userId
               /\ [tok |-> req[p].session, by |-> "setAuthCookie"] \in issued
               /\ \A r \in rateLimits :
                     (r.endpoint = "passkey-attempt"
                      /\ r.jwtHash = hashJWT(req[p].in.token))
                     => r.status = "success")

OwnPasskeyOps ==
    {"generateRegistrationOptions", "verifyRegistrationResponse", "deletePasskey"}

\* the passkey rows of the users other than userId
PasskeysOfOthers(rows, userId) == {k \in rows : k.userId # userId}

jsNumber(n) == [typeof |-> "number", value |-> n]

\* signCodeVerificationToken(userId, email, codeHash) of server/jwt.ts: the
\* third argument becomes the claim codeHash.
jwtSignCodeVerificationToken(userId, email, codeHash, t) ==
    [codeHash |-> codeHash, iat |-> t,
     exp |-> t + CODE_VERIFICATION_TOKEN_EXPIRATION]
        @@ CodeVerificationSubject(userId, email)

\* verifyCodeVerificationToken(token) of server/jwt.ts: the payload it
\* returns, or the error it throws.
jwtVerifyCodeVerificationToken(token, t) ==
    LET v == jwtVerify(token, t) IN
    IF v # "ok" THEN [ok |-> FALSE, error |-> v]
    ELSE IF ~Has(token, "codeHash") \/ token.codeHash.typeof # "string"
        THEN [ok |-> FALSE, error |-> "Invalid token payload structure"]
    ELSE IF ~subjectShapeOk(token)
        THEN [ok |-> FALSE, error |-> "Invalid token payload structure"]
    ELSE [ok |-> TRUE, error |-> "",
          payload |-> [codeHash |-> token.codeHash, iat |-> token.iat,
                       exp |-> token.exp]
                      @@ (IF Has(token, "userId") THEN [userId |-> token.userId]
                          ELSE [email |-> token.email])]

\* The payloads the other verify functions return.
signupTokenPayload(token) ==
    [name |-> token.name, email |-> token.email, iat |-> token.iat,
     exp |-> token.exp]

passkeyChallengeTokenPayload(token) ==
    [challenge |-> token.challenge, userId |-> token.userId,
     email |-> token.email, iat |-> token.iat, exp |-> token.exp]

passkeyDiscoveryTokenPayload(token) ==
    [challenge |-> token.challenge, iat |-> token.iat, exp |-> token.exp]

sessionTokenPayload(token) ==
    [userId |-> token.userId, iat |-> token.iat, exp |-> token.exp]

\* A flow passes the claims to the sign function of a kind and gets the token.
issuedWith(by, claims, token) ==
    /\ NoneDone
    /\ Cardinality(issued) < MaxTokens
    /\ \A i \in issued : i.tok # token
    /\ issued' = issued \cup {[tok |-> token, by |-> by, claims |-> claims]}
    /\ UNCHANGED <<now, users, userAuthAttempts, passkeyVars, rateLimits,
                   nextRateLimitId, req, redeemed, serial, quota>>

\* the old signup flow: signSignupToken(data.name, data.email)
issueSignupToken(name, email) ==
    issuedWith("signSignupToken", [name |-> name, email |-> email],
               signSignupToken(name, email, now))

\* requestSignupOTP and requestLoginCode:
\* signCodeVerificationToken(user?.id ?? null, data.email, attempt.id)
issueCodeVerificationToken(userId, email, attemptId) ==
    issuedWith("signCodeVerificationToken",
               [userAuthAttemptId |-> attemptId]
                   @@ CodeVerificationSubject(userId, email),
               jwtSignCodeVerificationToken(userId, email, jsNumber(attemptId), now))

\* generateRegistrationOptions and initiatePasskeyLogin
issuePasskeyChallengeToken(challenge, userId, email) ==
    issuedWith("signPasskeyChallengeToken",
               [challenge |-> challenge, userId |-> userId, email |-> email],
               signPasskeyChallengeToken(challenge, userId, email, now))

\* initiatePasskeyDiscovery
issuePasskeyDiscoveryToken(challenge) ==
    issuedWith("signPasskeyDiscoveryToken", [challenge |-> challenge],
               signPasskeyDiscoveryToken(challenge, now))

\* setAuthCookie
issueSessionToken(userId) ==
    issuedWith("signSessionToken", [userId |-> userId],
               signSessionToken(userId, now))

\* The verify function of the kind is called on a token issued as that kind.
verifiedOwnKind(p, op, i, result, payload) ==
    /\ CanStart(p)
    /\ i.by = SignerOf[op]
    /\ LET in == [token |-> i.tok, claims |-> i.claims] IN
       req' = [req EXCEPT ![p] =
           IF result.ok THEN Returned(op, in, TRUE, "") @@ [payload |-> payload]
           ELSE Thrown(op, in, "Token verification failed: " \o result.error)]
    /\ UNCHANGED <<now, users, userAuthAttempts, passkeyVars, rateLimits,
                   nextRateLimitId, issued, redeemed, serial, quota>>

verifyIssuedSignupToken(p, i) ==
    verifiedOwnKind(p, "verifySignupToken", i, verifySignupToken(i.tok, now),
                    signupTokenPayload(i.tok))

verifyIssuedCodeVerificationToken(p, i) ==
    LET result == jwtVerifyCodeVerificationToken(i.tok, now) IN
    verifiedOwnKind(p, "verifyCodeVerificationToken", i, result, result.payload)

verifyIssuedPasskeyChallengeToken(p, i) ==
    verifiedOwnKind(p, "verifyPasskeyChallengeToken", i,
                    verifyPasskeyChallengeToken(i.tok, now),
                    passkeyChallengeTokenPayload(i.tok))

verifyIssuedPasskeyDiscoveryToken(p, i) ==
    verifiedOwnKind(p, "verifyPasskeyDiscoveryToken", i,
                    verifyPasskeyDiscoveryToken(i.tok, now),
                    passkeyDiscoveryTokenPayload(i.tok))

verifyIssuedSessionToken(p, i) ==
    verifiedOwnKind(p, "verifySessionToken", i, verifySessionToken(i.tok, now),
                    sessionTokenPayload(i.tok))

InitRoundTripSeq == InitTables /\ serial = TRUE /\ quota = RequestQuota

NextRoundTrip ==
    \/ \E name \in Names, email \in Emails : issueSignupToken(name, email)
    \/ \E userId \in TokenUserIds \cup {NoUser}, email \in Emails,
          id \in TokenAttemptIds :
          issueCodeVerificationToken(userId, email, id)
    \/ \E challenge \in TokenChallenges, userId \in TokenUserIds, email \in Emails :
          issuePasskeyChallengeToken(challenge, userId, email)
    \/ \E challenge \in TokenChallenges : issuePasskeyDiscoveryToken(challenge)
    \/ \E userId \in TokenUserIds : issueSessionToken(userId)
    \/ \E p \in Procs, i \in issued : verifyIssuedSignupToken(p, i)
    \/ \E p \in Procs, i \in issued : verifyIssuedCodeVerificationToken(p, i)
    \/ \E p \in Procs, i \in issued : verifyIssuedPasskeyChallengeToken(p, i)
    \/ \E p \in Procs, i \in issued : verifyIssuedPasskeyDiscoveryToken(p, i)
    \/ \E p \in Procs, i \in issued : verifyIssuedSessionToken(p, i)
    \/ \E p \in Procs : Respond(p)
    \/ TickTokens

SpecRoundTripSeq == InitRoundTripSeq /\ [][NextRoundTrip]_vars

\* the claims of a payload, its timestamps left aside
ClaimsOf(payload) == [c \in DOMAIN payload \ {"iat", "exp"} |-> payload[c]]

\* C38: issue and verify round-trip for every token kind: for every claim
\* set the flows pass to the sign function of a kind (the AuthAttempt id and
\* the subject that requestSignupOTP and requestLoginCode pass for a
\* code-verification token included), the verify function of that kind,
\* called on the issued token before its expiry, returns exactly those claims.
C38_IssueVerifyRoundTrip ==
    \A p \in Procs :
        (/\ req[p].pc = "done"
         /\ req[p].op \in DOMAIN SignerOf
         /\ now < req[p].in.token.exp)
            => /\ req[p].success
               /\ ClaimsOf(req[p].payload) = req[p].in.claims

====
